---- MODULE Spec2Model ----
(***************************************************************************)
(* A model of the msdoc reader (github.com/TalentFormula/msdoc):           *)
(*   - the OLE2 compound-file reader (ole2.NewReader, Reader.ReadStream,   *)
(*     Reader.ListStreams);                                                *)
(*   - the piece-table decoder (structures.ParsePLC, ParsePCD,             *)
(*     ParsePlcPcd) and the text extraction of the Document facade         *)
(*     (Document.Text and its helpers);                                    *)
(*   - the RC4 cipher the facade keeps for encrypted documents.            *)
(*                                                                         *)
(* Conventions.  A byte string is a sequence of numbers 0..255; Go's       *)
(* 0-based index k is the TLA+ index k+1.  A uint32 is a pair <<hi, lo>>   *)
(* of 16-bit halves, so that the 32-bit wrap-around of the source is kept  *)
(* without leaving the integers TLC can represent.  A Go string is the     *)
(* sequence of its bytes (UTF-8).                                          *)
(***************************************************************************)
EXTENDS Integers, Sequences, FiniteSets, TLC

VARIABLES
    doc,        \* the open Document: fib, decryptor, and the streams its reader returns
    results,    \* the outcomes of the completed Text() calls, in call order
    crashed,    \* TRUE once a call has panicked (the process is gone)
    file,       \* the compound file handed to ole2.NewReader, or the *os.File an open holds
    reader,     \* the *ole2.Reader NewReader returned (or its error)
    reads,      \* the outcomes of the completed ReadStream/ListStreams calls
    thr,        \* per goroutine: the position of its Text() call and its locals
    input,      \* the arguments of a call of a parser or of an open
    output      \* what that call returned, once it has returned

vars == <<doc, results, crashed, file, reader, reads, thr, input, output>>

(***************************************************************************)
(* Sequences and bytes                                                     *)
(***************************************************************************)

\* s[lo:hi] of Go, for 0 <= lo <= hi <= len(s)
Slice(s, lo, hi) == SubSeq(s, lo + 1, hi)

Min(a, b) == IF a < b THEN a ELSE b

\* F(v), with v evaluated once and then used as a value
Apply(F(_), v) == CHOOSE r \in { F(x) : x \in {v} } : TRUE

\* n copies of x
Repeat(x, n) == [k \in 1..n |-> x]

RECURSIVE Flatten(_)
Flatten(ss) == IF ss = <<>> THEN <<>> ELSE Head(ss) \o Flatten(Tail(ss))

RECURSIVE XorBits(_, _, _)
XorBits(a, b, n) ==
    IF n = 0 THEN 0
    ELSE ((a + b) % 2) + 2 * XorBits(a \div 2, b \div 2, n - 1)

\* a ^ b on bytes
Xor8(a, b) == XorBits(a, b, 8)

(***************************************************************************)
(* uint32 as <<hi, lo>>                                                    *)
(***************************************************************************)

\* the uint32 with value n, for 0 <= n < 2^31
U(n) == <<n \div 65536, n % 65536>>

\* uint32 values below 2^31 convert to a number
Fits(u) == u[1] < 32768
Num(u) == u[1] * 65536 + u[2]

Lt32(a, b) == a[1] < b[1] \/ (a[1] = b[1] /\ a[2] < b[2])

\* a + b, wrapping at 2^32
Add32(a, b) ==
    LET lo == a[2] + b[2]
    IN  <<(a[1] + b[1] + (lo \div 65536)) % 65536, lo % 65536>>

\* a - b, wrapping at 2^32
Sub32(a, b) ==
    LET lo == a[2] - b[2] + 65536
        borrow == IF lo < 65536 THEN 1 ELSE 0
    IN  <<(a[1] - b[1] - borrow + 65536) % 65536, lo % 65536>>

\* a * 2, wrapping at 2^32
Mul2(a) == Add32(a, a)

\* a / 2
Div2(a) == <<a[1] \div 2, (a[2] \div 2) + (a[1] % 2) * 32768>>

\* binary.LittleEndian.Uint32 / Uint16 of the bytes at Go offset off
LE16(b, off) == b[off + 1] + 256 * b[off + 2]
LE32(b, off) == <<LE16(b, off + 2), LE16(b, off)>>

\* the little-endian bytes of a uint32 and of a uint16
PutLE16(n) == <<n % 256, n \div 256>>
PutLE32(u) == PutLE16(u[2]) \o PutLE16(u[1])

\* uint32(len(s))
Len32(s) == U(Len(s))

(***************************************************************************)
(* UTF-16 decoding and UTF-8 encoding, as unicode/utf16.Decode and         *)
(* string([]rune) do them                                                  *)
(***************************************************************************)

RECURSIVE Utf16Decode(_)
Utf16Decode(u) ==
    IF u = <<>> THEN <<>>
    ELSE LET r == u[1]
         IN  IF r >= 55296 /\ r < 56320 /\ Len(u) >= 2 /\ u[2] >= 56320 /\ u[2] < 57344
             THEN <<(r - 55296) * 1024 + (u[2] - 56320) + 65536>> \o Utf16Decode(Tail(Tail(u)))
             ELSE IF r >= 55296 /\ r < 57344
             THEN <<65533>> \o Utf16Decode(Tail(u))
             ELSE <<r>> \o Utf16Decode(Tail(u))

Utf8Rune(r) ==
    IF r < 128 THEN <<r>>
    ELSE IF r < 2048 THEN <<192 + (r \div 64), 128 + (r % 64)>>
    ELSE IF r >= 55296 /\ r < 57344 THEN <<239, 191, 189>>
    ELSE IF r < 65536
    THEN <<224 + (r \div 4096), 128 + ((r \div 64) % 64), 128 + (r % 64)>>
    ELSE <<240 + (r \div 262144), 128 + ((r \div 4096) % 64),
           128 + ((r \div 64) % 64), 128 + (r % 64)>>

\* string(runes)
Utf8(runes) == Flatten([k \in 1..Len(runes) |-> Utf8Rune(runes[k])])

\* the ASCII characters unicode.IsSpace holds of
IsSpace(b) == b \in {9, 10, 11, 12, 13, 32}

\* the others, in UTF-8: U+0085, U+00A0, U+1680, U+2000 .. U+200A, U+2028,
\* U+2029, U+202F, U+205F and U+3000
WideSpaces ==
    { <<194, 133>>, <<194, 160>>, <<225, 154, 128>>, <<226, 128, 168>>, <<226, 128, 169>>,
      <<226, 128, 175>>, <<226, 129, 159>>, <<227, 128, 128>> }
    \cup { <<226, 128, k>> : k \in 128..138 }

\* the number of bytes of the white-space character s starts with (0: none)
SpaceBefore(s) ==
    IF s = <<>> THEN 0
    ELSE IF IsSpace(s[1]) THEN 1
    ELSE IF s[1] < 128 THEN 0
    ELSE IF Len(s) >= 2 /\ SubSeq(s, 1, 2) \in WideSpaces THEN 2
    ELSE IF Len(s) >= 3 /\ SubSeq(s, 1, 3) \in WideSpaces THEN 3
    ELSE 0

\* the number of bytes of the white-space character s ends with (0: none)
SpaceAfter(s) ==
    IF s = <<>> THEN 0
    ELSE IF IsSpace(s[Len(s)]) THEN 1
    ELSE IF s[Len(s)] < 128 THEN 0
    ELSE IF Len(s) >= 2 /\ SubSeq(s, Len(s) - 1, Len(s)) \in WideSpaces THEN 2
    ELSE IF Len(s) >= 3 /\ SubSeq(s, Len(s) - 2, Len(s)) \in WideSpaces THEN 3
    ELSE 0

RECURSIVE TrimLeft(_)
TrimLeft(s) ==
    IF SpaceBefore(s) > 0 THEN TrimLeft(SubSeq(s, SpaceBefore(s) + 1, Len(s))) ELSE s

RECURSIVE TrimRight(_)
TrimRight(s) ==
    IF SpaceAfter(s) > 0 THEN TrimRight(SubSeq(s, 1, Len(s) - SpaceAfter(s))) ELSE s

\* strings.TrimSpace
TrimSpace(s) == TrimRight(TrimLeft(s))

(***************************************************************************)
(* The compound file.  Every read of the reader is a read of 512 bytes at  *)
(* a multiple of 512, so a file is its sequence of 512-byte blocks; block  *)
(* 0 starts with the header.  A block is a record of the views the reader  *)
(* takes of its bytes:                                                     *)
(*   u32, fill  the block as 128 little-endian uint32, given as int32      *)
(*              values: the entries of u32, then fill for the rest;        *)
(*   dir        the block as four 128-byte directory entries;              *)
(*   label      what the block holds: <<name, k>> for bytes 512k ..        *)
(*              512k+511 of the stream called name, or a tag.              *)
(* A directory entry keeps Name (its UTF-16 units up to the first that     *)
(* matters), NameLen, ObjectType, StartingSector and StreamSize.           *)
(***************************************************************************)

sectorSize == 512
dirEntrySize == 128

\* the FAT entries 0xFFFFFFFF and 0xFFFFFFFE, as int32
FREESECT == -1
ENDOFCHAIN == -2

DirEntry(name, nameLen, type, start, size) ==
    [Name |-> name, NameLen |-> nameLen, ObjectType |-> type,
     StartingSector |-> start, StreamSize |-> size]

\* an entry of zero bytes, and an entry of 0xFF bytes (only the type and the
\* name length of such entries are ever looked at)
ZeroEntry == DirEntry(<<>>, 0, 0, 0, 0)
FreeEntry == DirEntry(<<>>, 65535, 255, -1, 0)

\* a stream entry for an ASCII name: NameLen counts the terminator
StreamEntry(name, start, size) == DirEntry(name, 2 * Len(name) + 2, 2, start, size)
RootEntry(start, size) == DirEntry(<<82>>, 4, 5, start, size)

FatBlock(ents) ==
    [u32 |-> ents, fill |-> FREESECT, dir |-> <<FreeEntry, FreeEntry, FreeEntry, FreeEntry>>,
     label |-> <<"fat", 0>>]
DirBlock(ents) ==
    [u32 |-> <<>>, fill |-> 0,
     dir |-> [k \in 1..4 |-> IF k <= Len(ents) THEN ents[k] ELSE ZeroEntry],
     label |-> <<"dir", 0>>]
DataBlock(name, k) ==
    [u32 |-> <<>>, fill |-> 0, dir |-> <<ZeroEntry, ZeroEntry, ZeroEntry, ZeroEntry>>,
     label |-> <<name, k>>]
ZeroBlock == DataBlock("zero", 0)

\* entry k (from 0) of a block read as uint32s
U32At(b, k) == IF k < Len(b.u32) THEN b.u32[k + 1] ELSE b.fill

\* r.ReadAt(buf, off) with len(buf) = 512 and off = 512 * blk succeeds
CanRead(f, blk) == blk >= 0 /\ blk < Len(f.blocks)

(***************************************************************************)
(* ole2.Reader                                                             *)
(***************************************************************************)

\* the FAT sector numbers NewReader takes from the 109 DIFAT entries of the header
RECURSIVE HeaderFatSectors(_, _, _)
HeaderFatSectors(f, i, acc) ==
    IF i > Len(f.difat) THEN acc
    ELSE HeaderFatSectors(f, i + 1,
            IF f.difat[i] >= 0 /\ Len(acc) < f.h44 THEN Append(acc, f.difat[i]) ELSE acc)

\* the entries the loop over one DIFAT sector appends
RECURSIVE DifatSectorEntries(_, _, _, _)
DifatSectorEntries(f, b, k, acc) ==
    IF k >= 127 \/ Len(acc) >= f.h44 THEN acc
    ELSE DifatSectorEntries(f, b, k + 1,
            IF U32At(b, k) >= 0 THEN Append(acc, U32At(b, k)) ELSE acc)

\* the walk over the DIFAT sectors: i counts them, cur is currentDifatSector
RECURSIVE DifatChain(_, _, _, _)
DifatChain(f, i, cur, acc) ==
    IF ~(i < f.h68 /\ cur >= 0 /\ Len(acc) < f.h44) THEN acc
    ELSE IF ~CanRead(f, cur + 1) THEN acc
    ELSE DifatChain(f, i + 1, U32At(f.blocks[cur + 2], 127),
                    DifatSectorEntries(f, f.blocks[cur + 2], 0, acc))

\* fatSectorNumbers: h44 is the FAT sector count; the source takes the DIFAT
\* sector count from header offset 68 and the first DIFAT sector from 72
FatSectorNumbers(f) ==
    LET hdr == HeaderFatSectors(f, 1, <<>>)
    IN  IF f.h68 > 0 /\ f.h68 < 1000 /\ f.h72 >= 0 /\ Len(hdr) < f.h44
        THEN DifatChain(f, 0, f.h72, hdr)
        ELSE hdr

\* r.fat, as the sequence of the FAT blocks that could be read
RECURSIVE FatBlocks(_, _, _)
FatBlocks(f, nums, i) ==
    IF i > Len(nums) THEN <<>>
    ELSE (IF nums[i] >= 0 /\ CanRead(f, nums[i] + 1)
          THEN <<f.blocks[nums[i] + 2]>> ELSE <<>>) \o FatBlocks(f, nums, i + 1)

\* len(r.fat) and r.fat[n] as an int32
FatLen(r) == 128 * Len(r.fat)
FatAt(r, n) == U32At(r.fat[(n \div 128) + 1], n % 128)

\* the sectors after the first that NewReader appends to the directory: it
\* reads the sectors that follow dirStartSector in the file, as long as the
\* first entry of each has a type <= 5 and a name length in 1..64
RECURSIVE AdditionalDirBlocks(_, _, _)
AdditionalDirBlocks(f, additionalSectors, maxAdditionalSectors) ==
    IF additionalSectors >= maxAdditionalSectors THEN <<>>
    ELSE LET blk == f.h48 + 1 + additionalSectors + 1
         IN  IF ~CanRead(f, blk) THEN <<>>
             ELSE LET e == f.blocks[blk + 1].dir[1]
                  IN  IF e.ObjectType <= 5 /\ e.NameLen > 0 /\ e.NameLen <= 64
                      THEN <<blk>> \o AdditionalDirBlocks(f, additionalSectors + 1,
                                                          maxAdditionalSectors)
                      ELSE <<>>

\* the blocks of dirStream
DirStreamBlocks(f) ==
    IF f.h48 < 0 THEN <<>>
    ELSE <<f.h48 + 1>> \o
         AdditionalDirBlocks(f, 0,
             IF f.blocks[f.h48 + 2].dir[1].ObjectType <= 5 THEN 10 ELSE 3)

\* NewReader(r): the Reader (fat, dirEntries), or an error.  h48 is
\* dirStartSector; the sector shift at header offset 30 is not read.
NewReader(f) ==
    IF Len(f.blocks) = 0 THEN [err |-> "ole2: failed to read header"]
    ELSE IF ~f.sig THEN [err |-> "ole2: invalid signature"]
    ELSE IF f.h48 >= 0 /\ ~CanRead(f, f.h48 + 1)
    THEN [err |-> "ole2: failed to read directory sector"]
    ELSE [err |-> "",
          fat |-> FatBlocks(f, FatSectorNumbers(f), 1),
          dirEntries |-> Flatten([k \in 1..Len(DirStreamBlocks(f)) |->
                                     f.blocks[DirStreamBlocks(f)[k] + 1].dir])]

\* utf16BytesToString(name, nameLen), as the bytes of the Go string
RECURSIVE NameEnd(_, _, _)
NameEnd(name, maxChars, end) ==
    IF end < maxChars /\ end < 32 /\ end < Len(name) /\ name[end + 1] # 0
    THEN NameEnd(name, maxChars, end + 1) ELSE end

utf16BytesToString(name, nameLen) ==
    IF nameLen < 2 THEN <<>>
    ELSE Utf8(Utf16Decode(SubSeq(name, 1, NameEnd(name, nameLen \div 2, 0))))

\* the loop of ReadStream from sectorNum with remainingSize bytes to go:
\* data is the list of the <<block, n>> read so far (the first n bytes of
\* the block), visits the number of ReadAt calls
RECURSIVE StreamWalk(_, _, _, _, _, _, _)
StreamWalk(f, r, entry, sectorNum, remainingSize, data, visits) ==
    IF ~(sectorNum >= 0 /\ remainingSize > 0)
    THEN [err |-> "", data |-> data, visits |-> visits]
    ELSE IF ~CanRead(f, sectorNum + 1)
    THEN [err |-> "EOF", data |-> <<>>, visits |-> visits + 1]
    ELSE
    LET sectorDataSize == IF sectorSize > remainingSize THEN remainingSize ELSE sectorSize
        data2 == Append(data, <<sectorNum + 1, sectorDataSize>>)
        rem2 == remainingSize - sectorDataSize
    IN  IF sectorNum < FatLen(r)
        THEN IF FatAt(r, sectorNum) = ENDOFCHAIN \/ FatAt(r, sectorNum) = FREESECT
             THEN [err |-> "", data |-> data2, visits |-> visits + 1]
             ELSE StreamWalk(f, r, entry, FatAt(r, sectorNum), rem2, data2, visits + 1)
        ELSE IF rem2 > 0 /\ entry.StreamSize <= sectorSize * 10
             THEN StreamWalk(f, r, entry, sectorNum + 1, rem2, data2, visits + 1)
             ELSE [err |-> "", data |-> data2, visits |-> visits + 1]

\* the first stream entry called name, from entry i on
RECURSIVE FindStream(_, _, _)
FindStream(r, name, i) ==
    IF i > Len(r.dirEntries) THEN 0
    ELSE IF /\ r.dirEntries[i].ObjectType = 2
            /\ TrimSpace(utf16BytesToString(r.dirEntries[i].Name, r.dirEntries[i].NameLen))
                  = TrimSpace(name)
         THEN i
         ELSE FindStream(r, name, i + 1)

\* ReadStream with a walk that is given one sector more than the stream size
ReadStream_OneSectorMore(f, r, name) ==
    LET i == FindStream(r, name, 1)
    IN  IF i = 0 THEN [err |-> "ole2: stream not found", data |-> <<>>, visits |-> 0]
        ELSE StreamWalk(f, r, r.dirEntries[i], r.dirEntries[i].StartingSector,
                        r.dirEntries[i].StreamSize + sectorSize, <<>>, 0)

\* Reader.ReadStream(name)
ReadStream(f, r, name) ==
    LET i == FindStream(r, name, 1)
    IN  IF i = 0 THEN [err |-> "ole2: stream not found", data |-> <<>>, visits |-> 0]
        ELSE StreamWalk(f, r, r.dirEntries[i], r.dirEntries[i].StartingSector,
                        r.dirEntries[i].StreamSize, <<>>, 0)

\* Reader.ListStreams
RECURSIVE StreamNames(_, _)
StreamNames(r, i) ==
    IF i > Len(r.dirEntries) THEN <<>>
    ELSE LET n == utf16BytesToString(r.dirEntries[i].Name, r.dirEntries[i].NameLen)
         IN  (IF r.dirEntries[i].ObjectType = 2 /\ n # <<>> THEN <<n>> ELSE <<>>)
                \o StreamNames(r, i + 1)

ListStreams(r) == StreamNames(r, 1)

(***************************************************************************)
(* crypto.RC4                                                              *)
(***************************************************************************)

\* s[a], s[b] = s[b], s[a] on the 256-entry permutation (entry k at index k+1)
Swap(s, a, b) == [s EXCEPT ![a + 1] = s[b + 1], ![b + 1] = s[a + 1]]

\* rounds lo .. hi-1 of the key-scheduling loop of NewRC4, on st = [s, j]
\* (the rounds are split in halves, and st.j < 0, which never holds, makes
\* TLC evaluate st first: both keep the evaluation shallow)
RECURSIVE KSA(_, _, _, _)
KSA(st, lo, hi, key) ==
    IF st.j < 0 THEN st
    ELSE IF hi = lo + 1
    THEN LET j2 == (st.j + st.s[lo + 1] + key[(lo % Len(key)) + 1]) % 256
         IN  [s |-> Swap(st.s, lo, j2), j |-> j2]
    ELSE LET mid == (lo + hi) \div 2
         IN  KSA(KSA(st, lo, mid, key), mid, hi, key)

\* the cipher a Document without decryption holds: d.decryptor == nil
NilRC4 == [nil |-> TRUE, s |-> <<>>, i |-> 0, j |-> 0]

\* NewRC4(key) for a non-empty key
NewRC4(key) ==
    [nil |-> FALSE,
     s |-> KSA([s |-> [k \in 1..256 |-> k - 1], j |-> 0], 0, 256, key).s,
     i |-> 0, j |-> 0]

\* a round that adds the keystream byte to the data byte instead of xor-ing it
RC4Step_AddsKeystream(c, b) ==
    LET i2 == (c.i + 1) % 256
        j2 == (c.j + c.s[i2 + 1]) % 256
        s2 == Swap(c.s, i2, j2)
    IN  [c |-> [nil |-> FALSE, s |-> s2, i |-> i2, j |-> j2],
         b |-> (b + s2[((s2[i2 + 1] + s2[j2 + 1]) % 256) + 1]) % 256]

\* one round of the loop of RC4.Decrypt: the cipher after it and the output byte
RC4Step(c, b) ==
    LET i2 == (c.i + 1) % 256
        j2 == (c.j + c.s[i2 + 1]) % 256
        s2 == Swap(c.s, i2, j2)
    IN  [c |-> [nil |-> FALSE, s |-> s2, i |-> i2, j |-> j2],
         b |-> Xor8(b, s2[((s2[i2 + 1] + s2[j2 + 1]) % 256) + 1])]

\* the rounds k = lo .. hi-1 of the loop of RC4.Decrypt, run as the rounds
\* of the first half and then, on the cipher they leave, those of the second
\* half (the comparison c.i < 0 never holds: it makes TLC evaluate the
\* cipher before it goes on)
RECURSIVE DecryptFrom(_, _, _, _)
DecryptFrom(c, data, lo, hi) ==
    IF lo >= hi \/ c.i < 0 THEN [c |-> c, out |-> <<>>]
    ELSE IF hi = lo + 1
    THEN LET Round(r) == [c |-> r.c, out |-> <<r.b>>]
         IN  Apply(Round, RC4Step(c, data[lo + 1]))
    ELSE LET mid == (lo + hi) \div 2
             Second(a) ==
                 LET Join(b) == [c |-> b.c, out |-> a.out \o b.out]
                 IN  Apply(Join, DecryptFrom(a.c, data, mid, hi))
         IN  Apply(Second, DecryptFrom(c, data, lo, mid))

\* rc4.Decrypt(data): the output, and the cipher state the call leaves behind
Decrypt(c, data) == DecryptFrom(c, data, 0, Len(data))

(***************************************************************************)
(* crypto/md5: md5.Sum, on uint32 words kept as pairs of 16-bit halves     *)
(***************************************************************************)
RECURSIVE AndBits(_, _, _)
AndBits(a, b, n) ==
    IF n = 0 THEN 0
    ELSE ((a % 2) * (b % 2)) + 2 * AndBits(a \div 2, b \div 2, n - 1)

\* bits.RotateLeft32(u, s) for 0 < s < 32
RotateLeft32(u, s) ==
    LET v == IF s >= 16 THEN <<u[2], u[1]>> ELSE u
        r == s % 16
    IN  IF r = 0 THEN v
        ELSE <<((v[1] * (2 ^ r)) % 65536) + (v[2] \div (2 ^ (16 - r))),
               ((v[2] * (2 ^ r)) % 65536) + (v[1] \div (2 ^ (16 - r)))>>

\* the sine table and the shift amounts of MD5
md5Table ==
    <<
       <<55146, 42104>>, <<59591, 46934>>, <<9248, 28891>>, <<49597, 52974>>,
       <<62844, 4015>>, <<18311, 50730>>, <<43056, 17939>>, <<64838, 38145>>,
       <<27008, 39128>>, <<35652, 63407>>, <<65535, 23473>>, <<35164, 55230>>,
       <<27536, 4386>>, <<64920, 29075>>, <<42617, 17294>>, <<18868, 2081>>,
       <<63006, 9570>>, <<49216, 45888>>, <<9822, 23121>>, <<59830, 51114>>,
       <<54831, 4189>>, <<580, 5203>>, <<55457, 59009>>, <<59347, 64456>>,
       <<8673, 52710>>, <<49975, 2006>>, <<62677, 3463>>, <<17754, 5357>>,
       <<43491, 59653>>, <<64751, 41976>>, <<26479, 729>>, <<36138, 19594>>,
       <<65530, 14658>>, <<34673, 63105>>, <<28061, 24866>>, <<64997, 14348>>,
       <<42174, 59972>>, <<19422, 53161>>, <<63163, 19296>>, <<48831, 48240>>,
       <<10395, 32454>>, <<60065, 10234>>, <<54511, 12421>>, <<1160, 7429>>,
       <<55764, 53305>>, <<59099, 39397>>, <<8098, 31992>>, <<50348, 22117>>,
       <<62505, 8772>>, <<17194, 65431>>, <<43924, 9127>>, <<64659, 41017>>,
       <<25947, 22979>>, <<36620, 52370>>, <<65519, 62589>>, <<34180, 24017>>,
       <<28584, 32335>>, <<65068, 59104>>, <<41729, 17172>>, <<19976, 4513>>,
       <<63315, 32386>>, <<48442, 62005>>, <<10967, 53947>>, <<60294, 54161>>
    >>

md5Shifts ==
    <<
       7, 12, 17, 22, 7, 12, 17, 22, 7, 12, 17, 22, 7, 12, 17, 22,
       5, 9, 14, 20, 5, 9, 14, 20, 5, 9, 14, 20, 5, 9, 14, 20,
       4, 11, 16, 23, 4, 11, 16, 23, 4, 11, 16, 23, 4, 11, 16, 23,
       6, 10, 15, 21, 6, 10, 15, 21, 6, 10, 15, 21, 6, 10, 15, 21
    >>

\* a + b + c + d, wrapping at 2^32
Add32x4(a, b, c, d) ==
    <<(a[1] + b[1] + c[1] + d[1] + ((a[2] + b[2] + c[2] + d[2]) \div 65536)) % 65536,
      (a[2] + b[2] + c[2] + d[2]) % 65536>>

\* the round functions of MD5 on 16-bit halves
md5F(x, y, z) == AndBits(x, y, 16) + AndBits(65535 - x, z, 16)
md5H(x, y, z) == XorBits(XorBits(x, y, 16), z, 16)
md5I(x, y, z) == XorBits(y, x + (65535 - z) - AndBits(x, 65535 - z, 16), 16)

\* step i (0..63) of the block function on the state <<a, b, c, d>>
md5Step(i, st, M) ==
    LET a == st[1]
        b == st[2]
        c == st[3]
        d == st[4]
        F == IF i < 16 THEN <<md5F(b[1], c[1], d[1]), md5F(b[2], c[2], d[2])>>
             ELSE IF i < 32 THEN <<md5F(d[1], b[1], c[1]), md5F(d[2], b[2], c[2])>>
             ELSE IF i < 48 THEN <<md5H(b[1], c[1], d[1]), md5H(b[2], c[2], d[2])>>
             ELSE <<md5I(b[1], c[1], d[1]), md5I(b[2], c[2], d[2])>>
        g == IF i < 16 THEN i
             ELSE IF i < 32 THEN ((5 * i) + 1) % 16
             ELSE IF i < 48 THEN ((3 * i) + 5) % 16
             ELSE (7 * i) % 16
        Rotated(f) == <<d, Add32(b, RotateLeft32(f, md5Shifts[i + 1])), b, c>>
    IN  Apply(Rotated, Add32x4(F, a, md5Table[i + 1], M[g + 1]))

\* steps lo .. hi-1 of the block function, by halves to keep the evaluation
\* shallow (the comparison st[2][1] < 0 never holds: it makes TLC evaluate
\* the state before it goes on)
RECURSIVE md5Steps(_, _, _, _)
md5Steps(lo, hi, st, M) ==
    IF st[2][1] < 0 THEN st
    ELSE IF hi - lo = 1 THEN md5Step(lo, st, M)
    ELSE md5Steps((lo + hi) \div 2, hi, md5Steps(lo, (lo + hi) \div 2, st, M), M)

\* the digest state after the 64-byte blocks of p from block k on
RECURSIVE md5Blocks(_, _, _)
md5Blocks(p, k, st) ==
    IF 64 * k >= Len(p) \/ st[2][1] < 0 THEN st
    ELSE LET M == [w \in 1..16 |-> LE32(p, (64 * k) + (4 * (w - 1)))]
             Sum(r) == <<Add32(st[1], r[1]), Add32(st[2], r[2]),
                         Add32(st[3], r[3]), Add32(st[4], r[4])>>
         IN  md5Blocks(p, k + 1, Apply(Sum, md5Steps(0, 64, st, M)))

\* md5.Sum(msg): the 16 bytes of the digest
md5Sum(msg) ==
    LET n  == Len(msg)
        p  == msg \o <<128>> \o Repeat(0, (55 - n) % 64) \o PutLE32(U(8 * n)) \o <<0, 0, 0, 0>>
        Bytes(st) == PutLE32(st[1]) \o PutLE32(st[2]) \o PutLE32(st[3]) \o PutLE32(st[4])
    IN  Apply(Bytes, md5Blocks(p, 0, <<<<26437, 8961>>, <<61389, 43913>>,
                                       <<39098, 56574>>, <<4146, 21622>>>>))

(***************************************************************************)
(* crypto: password hashing, key derivation and the EncryptionHeader.      *)
(* A Go string is the sequence of its bytes.                               *)
(***************************************************************************)
Cont(b) == b >= 128 /\ b <= 191

\* the first rune of the non-empty string s as `for _, r := range s` yields
\* it, and the number of bytes it takes; a byte that starts no valid UTF-8
\* encoding is U+FFFD and takes one byte.  Runes above 0xFFFF are given
\* modulo 65536, which is all that GeneratePasswordHash uses of them.
DecodeRune(s) ==
    LET n  == Len(s)
        b0 == s[1]
        b1 == IF n >= 2 THEN s[2] ELSE 0
        b2 == IF n >= 3 THEN s[3] ELSE 0
        b3 == IF n >= 4 THEN s[4] ELSE 0
        bad == [r |-> 65533, size |-> 1]
    IN  IF b0 < 128 THEN [r |-> b0, size |-> 1]
        ELSE IF b0 >= 194 /\ b0 <= 223
        THEN IF Cont(b1) THEN [r |-> ((b0 % 32) * 64) + (b1 % 64), size |-> 2] ELSE bad
        ELSE IF b0 >= 224 /\ b0 <= 239
        THEN IF /\ Cont(b1) /\ Cont(b2)
                /\ (b0 = 224 => b1 >= 160)
                /\ (b0 = 237 => b1 <= 159)
             THEN [r |-> ((b0 % 16) * 4096) + ((b1 % 64) * 64) + (b2 % 64), size |-> 3]
             ELSE bad
        ELSE IF b0 >= 240 /\ b0 <= 244
        THEN IF /\ Cont(b1) /\ Cont(b2) /\ Cont(b3)
                /\ (b0 = 240 => b1 >= 144)
                /\ (b0 = 244 => b1 <= 143)
             THEN [r |-> (((b1 % 16) * 4096) + ((b2 % 64) * 64) + (b3 % 64)) % 65536,
                   size |-> 4]
             ELSE bad
        ELSE bad

\* the loop of GeneratePasswordHash: byte(r), byte(r>>8) for every rune
RECURSIVE Utf16Password(_)
Utf16Password(s) ==
    IF s = <<>> THEN <<>>
    ELSE LET d == DecodeRune(s)
         IN  <<d.r % 256, (d.r \div 256) % 256>> \o Utf16Password(Slice(s, d.size, Len(s)))

\* crypto.GeneratePasswordHash: nil for the empty password
GeneratePasswordHash(password) ==
    IF Len(password) = 0 THEN <<>> ELSE md5Sum(Utf16Password(password))

\* crypto.GenerateDecryptionKey
GenerateDecryptionKey(password, salt) ==
    IF Len(password) = 0 THEN [err |-> "password cannot be empty", key |-> <<>>]
    ELSE IF Len(salt) < 16 THEN [err |-> "salt must be at least 16 bytes", key |-> <<>>]
    ELSE [err |-> "", key |-> md5Sum(GeneratePasswordHash(password) \o Slice(salt, 0, 16))]

\* reader.Read(buf) for a buffer of n zero bytes at position pos of data: a
\* short read fills the head of the buffer and is no error
ReadInto(data, pos, n) ==
    LET k == IF pos >= Len(data) THEN 0 ELSE Min(n, Len(data) - pos)
    IN  [err |-> IF pos >= Len(data) THEN "EOF" ELSE "",
         buf |-> Slice(data, pos, pos + k) \o Repeat(0, n - k),
         pos |-> pos + k]

NilHeader == [nil |-> TRUE]

\* crypto.ParseEncryptionHeader (the provider name, which nothing reads, is
\* left out of the header)
ParseEncryptionHeader(data) ==
    IF Len(data) < 32 THEN [err |-> "encryption header too small", header |-> NilHeader]
    ELSE
    LET name == ReadInto(data, 34, 64)
        salt == ReadInto(data, name.pos, 16)
        ev   == ReadInto(data, salt.pos, 16)
        vh   == ReadInto(data, ev.pos, 16)
    IN  IF salt.err # "" THEN [err |-> "failed to read salt: " \o salt.err, header |-> NilHeader]
        ELSE IF ev.err # ""
        THEN [err |-> "failed to read encrypted verifier: " \o ev.err, header |-> NilHeader]
        ELSE IF vh.err # ""
        THEN [err |-> "failed to read verifier hash: " \o vh.err, header |-> NilHeader]
        ELSE [err |-> "",
              header |-> [Version |-> LE16(data, 0), EncryptionFlags |-> LE32(data, 2),
                          HeaderSize |-> LE32(data, 6), ProviderType |-> LE32(data, 10),
                          AlgID |-> LE32(data, 14), AlgHashID |-> LE32(data, 18),
                          KeySize |-> LE32(data, 22),
                          Salt |-> salt.buf, EncryptedVerifier |-> ev.buf,
                          VerifierHash |-> vh.buf]]

\* EncryptionHeader.IsRC4Encryption: AlgID == 0x6801
IsRC4Encryption(h) == h.AlgID = U(26625)

\* EncryptionHeader.IsPasswordProtected
IsPasswordProtected(h) == Len(h.EncryptedVerifier) > 0 /\ Len(h.VerifierHash) > 0

\* EncryptionHeader.ValidatePassword: [err, valid]
ValidatePassword(h, password) ==
    LET Compare(verifierHash) ==
            \A i \in 1..Min(Len(verifierHash), Len(h.VerifierHash)) :
                verifierHash[i] = h.VerifierHash[i]
        WithKey(k) ==
            IF k.err # "" THEN [err |-> "failed to generate key: " \o k.err, valid |-> FALSE]
            ELSE [err |-> "",
                  valid |-> Apply(Compare, GeneratePasswordHash(
                                Decrypt(NewRC4(k.key), h.EncryptedVerifier).out))]
    IN  IF ~IsPasswordProtected(h)
        THEN [err |-> "document is not password protected", valid |-> FALSE]
        ELSE Apply(WithKey, GenerateDecryptionKey(password, h.Salt))

\* EncryptionHeader.CreateDecryptionCipher: [err, rc4]
CreateDecryptionCipher(h, password) ==
    LET WithKey(k) ==
            IF k.err # "" THEN [err |-> "failed to generate key: " \o k.err, rc4 |-> NilRC4]
            ELSE [err |-> "", rc4 |-> NewRC4(k.key)]
        Validated(v) ==
            IF v.err # "" THEN [err |-> v.err, rc4 |-> NilRC4]
            ELSE IF ~v.valid THEN [err |-> "incorrect password", rc4 |-> NilRC4]
            ELSE Apply(WithKey, GenerateDecryptionKey(password, h.Salt))
    IN  IF ~IsPasswordProtected(h)
        THEN [err |-> "document is not password protected", rc4 |-> NilRC4]
        ELSE Apply(Validated, ValidatePassword(h, password))

(***************************************************************************)
(* structures: CP, PLC, PCD, PlcPcd                                        *)
(***************************************************************************)

\* CP.Distance
Distance(cp, end) == IF ~Lt32(cp, end) THEN U(0) ELSE Sub32(end, cp)

PcdSize == 8

\* ParsePLC(data, dataSize): the CPs and the raw data elements, or an error
ParsePLC(data, dataSize) ==
    IF Len(data) < 4 THEN [err |-> "plc: data too short"]
    ELSE IF dataSize <= 0 THEN [err |-> "plc: invalid data size"]
    ELSE IF (Len(data) - 4) % (dataSize + 4) # 0 THEN [err |-> "plc: invalid PLC size"]
    ELSE LET n == (Len(data) - 4) \div (dataSize + 4)
             numCPs == n + 1
         IN  [err |-> "",
              CPs |-> [i \in 1..numCPs |-> LE32(data, (i - 1) * 4)],
              Data |-> [i \in 1..n |->
                          Slice(data, numCPs * 4 + (i - 1) * dataSize,
                                      numCPs * 4 + i * dataSize)]]

\* ParsePCD that takes a clear bit 30 of the FC word for Unicode
ParsePCD_ClearBitIsUnicode(data) ==
    IF Len(data) # 8 THEN [err |-> "pcd: invalid data size"]
    ELSE LET flags == LE16(data, 0)
             fc == LE32(data, 2)
         IN  [err |-> "",
              FNoEncryption |-> (flags % 2) = 1,
              FComplex |-> ((flags \div 2) % 2) = 1,
              IsUnicode |-> ((fc[1] \div 16384) % 2) = 0,
              FC |-> <<fc[1] % 16384, fc[2]>>]

\* ParsePCD(data)
ParsePCD(data) ==
    IF Len(data) # 8 THEN [err |-> "pcd: invalid data size"]
    ELSE LET flags == LE16(data, 0)
             fc == LE32(data, 2)
         IN  [err |-> "",
              FNoEncryption |-> (flags % 2) = 1,
              FComplex |-> ((flags \div 2) % 2) = 1,
              IsUnicode |-> ((fc[1] \div 16384) % 2) = 1,
              FC |-> <<fc[1] % 16384, fc[2]>>]

\* PCD.GetActualFC
GetActualFC(pcd) == IF pcd.IsUnicode THEN Div2(pcd.FC) ELSE pcd.FC

\* ParsePlcPcd(data); ParsePCD cannot fail on the 8-byte elements ParsePLC cuts
ParsePlcPcd(data) ==
    LET plc == ParsePLC(data, PcdSize)
    IN  IF plc.err # "" THEN [err |-> "plcpcd: failed to parse PLC"]
        ELSE [err |-> "", CPs |-> plc.CPs,
              Pieces |-> [i \in 1..Len(plc.Data) |-> ParsePCD(plc.Data[i])]]

\* PLC.Count
Count(plcPcd) == Len(plcPcd.Pieces)

(***************************************************************************)
(* fib.FileInformationBlock: the fields the facade reads                   *)
(***************************************************************************)

\* (flags & mask) != 0 for a one-bit mask
HasBit(flags, mask) == ((flags \div mask) % 2) = 1

\* FileInformationBlock.IsEncrypted
IsEncrypted(fib) == HasBit(fib.Flags1, 256)

\* FileInformationBlock.IsObfuscated
IsObfuscated(fib) == HasBit(fib.Flags1, 32768)

\* the error of io.ReadFull for n bytes when `have` bytes are left ("" is none)
ReadFullErr(have, n) ==
    IF n = 0 \/ have >= n THEN ""
    ELSE IF have = 0 THEN "EOF" ELSE "unexpected EOF"

\* the error of bytes.Reader.Read when `have` bytes are left: a short read is
\* no error, only a read at the end of the data is
ReaderReadErr(have) == IF have = 0 THEN "EOF" ELSE ""

wIdentWord == 42476
fibBaseSize == 32
fibRgWSize == 28
fibRgLwSize == 76
fcClxOffset == 264

NilFib == [nil |-> TRUE]
FibErr(e) == [err |-> e, fib |-> NilFib]

\* parseFibRgFcLcb97: the blob as uint32 fields, FcClx and LcbClx are fields
\* 66 and 67 when there are at least 68 fields, and stay 0 otherwise
parseFibRgFcLcb97(blob) ==
    IF Len(blob) < 8 THEN [err |-> "not enough data for FibRgFcLcb97", FcClx |-> U(0), LcbClx |-> U(0)]
    ELSE IF Len(blob) \div 4 >= 68
         THEN [err |-> "", FcClx |-> LE32(blob, 4 * 66), LcbClx |-> LE32(blob, 4 * 67)]
         ELSE [err |-> "", FcClx |-> U(0), LcbClx |-> U(0)]

\* parseBasicFcLcb: the fallback for an unknown nFib
parseBasicFcLcb(blob) ==
    IF Len(blob) >= fcClxOffset + 8
    THEN [err |-> "", FcClx |-> LE32(blob, fcClxOffset), LcbClx |-> LE32(blob, fcClxOffset + 4)]
    ELSE [err |-> "", FcClx |-> U(0), LcbClx |-> U(0)]

\* parseFibRgFcLcb: dispatch on nFib (0x00C1, 0x00D9, 0x0101, 0x010C, 0x0112)
parseFibRgFcLcb(nFib, blob) ==
    IF blob = <<>> THEN [err |-> "", FcClx |-> U(0), LcbClx |-> U(0)]
    ELSE IF nFib = 193 THEN parseFibRgFcLcb97(blob)
    ELSE IF nFib \in {217, 257, 268, 274} THEN parseFibRgFcLcb97(blob)
    ELSE parseBasicFcLcb(blob)

\* ParseFIB of package fib as src/unnamed/part_008 has it.  The sub-records
\* are read with fixed sizes (28 and 76 bytes), whatever csw and cslw say.
\* The error texts leave out the offsets and sizes the code prints in them.
ParseFIB(data) ==
    IF Len(data) < fibBaseSize THEN FibErr("fib: data too short for FibBase")
    ELSE IF LE16(data, 0) # wIdentWord THEN FibErr("fib: invalid wIdent, not a Word document")
    ELSE
    LET n      == Len(data)
        e1     == ReadFullErr(n - fibBaseSize, 2)
        p1     == fibBaseSize + 2
        e2     == ReaderReadErr(n - p1)
        p2     == p1 + Min(fibRgWSize, n - p1)
        e3     == ReadFullErr(n - p2, 2)
        p3     == p2 + 2
        e4     == ReaderReadErr(n - p3)
        p4     == p3 + Min(fibRgLwSize, n - p3)
        e5     == ReadFullErr(n - p4, 2)
        p5     == p4 + 2
    IN  IF e1 # "" THEN FibErr("fib: failed to read Csw: " \o e1)
        ELSE IF e2 # "" THEN FibErr("fib: failed to read FibRgW: " \o e2)
        ELSE IF e3 # "" THEN FibErr("fib: failed to read Cslw: " \o e3)
        ELSE IF e4 # "" THEN FibErr("fib: failed to read FibRgLw: " \o e4)
        ELSE IF e5 # "" THEN FibErr("fib: failed to read CbRgFcLcb: " \o e5)
        ELSE
        LET cb       == LE16(data, p4)
            blobSize == cb * 8
        IN  IF n - p5 < blobSize THEN FibErr("fib: data too short for RgFcLcbBlob")
            ELSE IF ReaderReadErr(n - p5) # ""
                 THEN FibErr("fib: could not read RgFcLcbBlob: " \o ReaderReadErr(n - p5))
            ELSE
            LET blob == Slice(data, p5, p5 + blobSize)
                r    == parseFibRgFcLcb(LE16(data, 2), blob)
            IN  IF r.err # "" THEN FibErr("fib: failed to parse FibRgFcLcb: " \o r.err)
                ELSE [err |-> "",
                      fib |-> [NFib |-> LE16(data, 2), Flags1 |-> LE16(data, 10),
                               Csw |-> LE16(data, fibBaseSize), Cslw |-> LE16(data, p2),
                               CbRgFcLcb |-> cb, RgFcLcbBlob |-> blob,
                               FcClx |-> r.FcClx, LcbClx |-> r.LcbClx]]

\* FibRgLw97 of src/fib/fib.go: ten uint32 and 44 reserved bytes
fibRgLw97Size == (10 * 4) + 44
fcClxOffset_fib_go == 248

\* ParseFIB as src/fib/fib.go has it: the sub-records are read as structs
\* (FibRgW97 is 28 bytes, FibRgLw97 of that file 84 bytes), the length of the
\* blob is the uint16 product CbRgFcLcb*8, and FcClx is taken at offset 248
\* for every nFib
ParseFIB_fib_go(data) ==
    IF Len(data) < fibBaseSize THEN FibErr("fib: data too short for FibBase")
    ELSE IF LE16(data, 0) # wIdentWord THEN FibErr("fib: invalid wIdent, not a Word document")
    ELSE
    LET n  == Len(data)
        p1 == fibBaseSize + 2
        p2 == p1 + fibRgWSize
        p3 == p2 + 2
        p4 == p3 + fibRgLw97Size
        p5 == p4 + 2
        e1 == ReadFullErr(n - fibBaseSize, 2)
        e2 == ReadFullErr(n - p1, fibRgWSize)
        e3 == ReadFullErr(n - p2, 2)
        e4 == ReadFullErr(n - p3, fibRgLw97Size)
        e5 == ReadFullErr(n - p4, 2)
    IN  IF e1 # "" THEN FibErr(e1)
        ELSE IF e2 # "" THEN FibErr(e2)
        ELSE IF e3 # "" THEN FibErr(e3)
        ELSE IF e4 # "" THEN FibErr(e4)
        ELSE IF e5 # "" THEN FibErr(e5)
        ELSE
        LET cb       == LE16(data, p4)
            blobSize == (cb * 8) % 65536
            e6       == ReadFullErr(n - p5, blobSize)
        IN  IF e6 # "" THEN FibErr("fib: could not read RgFcLcbBlob: " \o e6)
            ELSE
            LET blob == Slice(data, p5, p5 + blobSize)
                has  == Len(blob) >= fcClxOffset_fib_go + 8
            IN  [err |-> "",
                 fib |-> [NFib |-> LE16(data, 2), Flags1 |-> LE16(data, 10),
                          Csw |-> LE16(data, fibBaseSize), Cslw |-> LE16(data, p2),
                          CbRgFcLcb |-> cb, RgFcLcbBlob |-> blob,
                          FcClx |-> IF has THEN LE32(blob, fcClxOffset_fib_go) ELSE U(0),
                          LcbClx |-> IF has THEN LE32(blob, fcClxOffset_fib_go + 4) ELSE U(0)]]

\* FileInformationBlock.GetTableStreamName
GetTableStreamName(fib) == IF HasBit(fib.Flags1, 512) THEN "1Table" ELSE "0Table"

(***************************************************************************)
(* msdoc.Document: text extraction                                         *)
(*                                                                         *)
(* An outcome is [kind, text, err, dec]: kind is "ok" (text, nil),         *)
(* "err" ("", err) or "panic" (a run-time panic of the Go program); dec is *)
(* the state the call leaves d.decryptor in.  A text is the sequence of    *)
(* the bytes of the Go string; an item -n stands for a run of n NUL bytes  *)
(* (the strings of 2^31 characters and more that the source can build).    *)
(***************************************************************************)

OkOut(text, dec) == [kind |-> "ok", text |-> text, err |-> "", dec |-> dec]
ErrOut(e, dec) == [kind |-> "err", text |-> <<>>, err |-> e, dec |-> dec]
PanicOut(e, dec) == [kind |-> "panic", text |-> <<>>, err |-> e, dec |-> dec]

\* d.reader.ReadStream(name) as the facade sees it: the bytes, or an error
DocReadStream(d, name) == d.streams[name]

\* the uint16 units the conversion loop of the Unicode branch fills in, and
\* the string they decode to.  bytes is utf16bytes (of even length 2k);
\* charCount is k, or k + 2^31 when charCount * 2 wrapped: then entries
\* k .. 2^31-1 stay zero and entries 2^31 .. 2^31+k-1 are filled again,
\* because j*2 wraps as well.
UnicodePieceText(bytes, charCount) ==
    LET k == Len(bytes) \div 2
        w == [j \in 1..k |-> LE16(bytes, (j - 1) * 2)]
    IN  IF Fits(charCount)
        THEN Utf8(Utf16Decode(w))
        ELSE Utf8(Utf16Decode(w \o <<0>>)) \o <<-(2147483647 - k)>> \o Utf8(Utf16Decode(w))

\* utf16bytes or ansiBytes of piece i (from 1) as sliced from the stream
PieceBytes(plcPcd, wordStream, i) ==
    LET pcd == plcPcd.Pieces[i]
        charCount == Distance(plcPcd.CPs[i], plcPcd.CPs[i + 1])
        filePos == GetActualFC(pcd)
        byteCount == IF pcd.IsUnicode THEN Mul2(charCount) ELSE charCount
    IN  Slice(wordStream, Num(filePos), Num(Add32(filePos, byteCount)))

\* the round for piece i gets to its call of d.decryptor.Decrypt
PieceDecrypts(plcPcd, wordStream, isEncrypted, i) ==
    LET pcd == plcPcd.Pieces[i]
        charCount == Distance(plcPcd.CPs[i], plcPcd.CPs[i + 1])
        filePos == GetActualFC(pcd)
        byteCount == IF pcd.IsUnicode THEN Mul2(charCount) ELSE charCount
        end == Add32(filePos, byteCount)
    IN  /\ charCount # U(0)
        /\ ~Lt32(Len32(wordStream), end)
        /\ ~Lt32(end, filePos)
        /\ isEncrypted
        /\ ~pcd.FNoEncryption

\* one round of the loop of extractTextFromPieces, for piece i (from 1) with
\* text written so far and the cipher in state dec: the error or panic it
\* ends the call with, or kind "next" with the text and the cipher after it;
\* dr is what the bytes of the piece became: the output of Decrypt and the
\* cipher it left, or the bytes themselves when the round does not decrypt
PieceStepWith(plcPcd, wordStream, i, text, dec, dr) ==
    LET pcd == plcPcd.Pieces[i]
        charCount == Distance(plcPcd.CPs[i], plcPcd.CPs[i + 1])
        filePos == GetActualFC(pcd)
        byteCount == IF pcd.IsUnicode THEN Mul2(charCount) ELSE charCount
        end == Add32(filePos, byteCount)
    IN  IF charCount = U(0)
        THEN [kind |-> "next", text |-> text, err |-> "", dec |-> dec]
        ELSE IF Lt32(Len32(wordStream), end)
        THEN ErrOut(IF pcd.IsUnicode
                    THEN "WordDocument stream too small for Unicode text"
                    ELSE "WordDocument stream too small for ANSI text", dec)
        ELSE IF Lt32(end, filePos)
        THEN PanicOut("slice bounds out of range", dec)
        ELSE [kind |-> "next",
              text |-> text \o (IF pcd.IsUnicode
                                THEN UnicodePieceText(dr.out, charCount)
                                ELSE dr.out),
              err |-> "", dec |-> dr.c]

\* the round with its call of Decrypt run in one piece
PieceStep(plcPcd, wordStream, isEncrypted, i, text, dec) ==
    PieceStepWith(plcPcd, wordStream, i, text, dec,
                  IF PieceDecrypts(plcPcd, wordStream, isEncrypted, i)
                  THEN Decrypt(dec, PieceBytes(plcPcd, wordStream, i))
                  ELSE [c |-> dec, out |-> PieceBytes(plcPcd, wordStream, i)])

\* the loop from piece i on
RECURSIVE PiecesFrom(_, _, _, _, _, _)
PiecesFrom(plcPcd, wordStream, isEncrypted, i, text, dec) ==
    IF i > Count(plcPcd) THEN OkOut(text, dec)
    ELSE LET s == PieceStep(plcPcd, wordStream, isEncrypted, i, text, dec)
         IN  IF s.kind = "next"
             THEN PiecesFrom(plcPcd, wordStream, isEncrypted, i + 1, s.text, s.dec)
             ELSE s

\* Document.extractTextFromPieces
extractTextFromPieces(plcPcd, wordStream, isEncrypted, dec) ==
    PiecesFrom(plcPcd, wordStream, isEncrypted, 1, <<>>, dec)

RECURSIVE RawTextFrom(_, _, _)
RawTextFrom(remaining, i, text) ==
    IF i >= Len(remaining) THEN text
    ELSE
    LET b == remaining[i + 1]
        stop == \/ (b = 0 /\ i + 1 < Len(remaining) /\ remaining[i + 2] = 0)
                \/ b > 126
        text2 == IF b >= 32 /\ b <= 126 THEN Append(text, b)
                 ELSE IF b = 13 \/ b = 10 THEN Append(text, 10)
                 ELSE IF b = 9 THEN Append(text, 9)
                 ELSE IF b = 0 /\ ~stop THEN Append(text, 32)
                 ELSE text
    IN  IF stop THEN text
        ELSE IF Len(text2) > 50 /\ b < 32 /\ b # 9 /\ b # 10 /\ b # 13 THEN text2
        ELSE RawTextFrom(remaining, i + 1, text2)

\* Document.extractRawTextFromOffset
extractRawTextFromOffset(wordStream, offset) ==
    IF offset >= Len(wordStream) THEN <<>>
    ELSE TrimSpace(RawTextFrom(Slice(wordStream, offset, Len(wordStream)), 0, <<>>))

TextOffsets == <<2048, 1024, 3072, 4096>>

RECURSIVE BestTextFrom(_, _, _)
BestTextFrom(wordStream, n, best) ==
    IF n > Len(TextOffsets) THEN best
    ELSE LET text == extractRawTextFromOffset(wordStream, TextOffsets[n])
         IN  BestTextFrom(wordStream, n + 1,
                          IF Len(text) > Len(best) /\ Len(text) > 10 THEN text ELSE best)

\* Document.extractTextFallback
extractTextFallback(d) ==
    LET ws == DocReadStream(d, "WordDocument")
    IN  IF ~ws.ok THEN ErrOut("failed to read WordDocument stream", d.decryptor)
        ELSE OkOut(BestTextFrom(ws.data, 1, <<>>), d.decryptor)

\* the other table stream
AlternativeStreamName(name) == IF name = "0Table" THEN "1Table" ELSE "0Table"

\* the table stream both extractors end up with: the one the FIB names, else
\* the alternative, else none
TableStreamOf(d) ==
    LET first == DocReadStream(d, GetTableStreamName(d.fib))
    IN  IF first.ok THEN first
        ELSE DocReadStream(d, AlternativeStreamName(GetTableStreamName(d.fib)))

\* Document.extractUnencryptedText up to its call of extractTextFromPieces:
\* out is the outcome when the call ends before it, and otherwise pieces
\* holds, with the parsed piece table and the WordDocument stream
UnencryptedClx(d) ==
    LET table == TableStreamOf(d)
        clxOffset == d.fib.FcClx
        clxSize == d.fib.LcbClx
        end == Add32(clxOffset, clxSize)
        clx == Slice(table.data, Num(clxOffset), Num(end))
        plcPcd == ParsePlcPcd(Slice(clx, 1, Len(clx)))
        ws == DocReadStream(d, "WordDocument")
        Done(o) == [pieces |-> FALSE, out |-> o, plcPcd |-> <<>>, ws |-> <<>>]
    IN  IF ~table.ok THEN Done(extractTextFallback(d))
        ELSE IF clxSize = U(0) THEN Done(extractTextFallback(d))
        ELSE IF Lt32(Len32(table.data), end)
        THEN Done(ErrOut("table stream too small for CLX data", d.decryptor))
        ELSE IF Lt32(end, clxOffset)
        THEN Done(PanicOut("slice bounds out of range", d.decryptor))
        ELSE IF Len(clx) = 0 \/ clx[1] # 2
        THEN Done(ErrOut("invalid CLX structure, expected PlcPcd marker", d.decryptor))
        ELSE IF plcPcd.err # ""
        THEN Done(ErrOut("failed to parse piece table", d.decryptor))
        ELSE IF ~ws.ok
        THEN Done(ErrOut("failed to read WordDocument stream", d.decryptor))
        ELSE [pieces |-> TRUE, out |-> OkOut(<<>>, d.decryptor), plcPcd |-> plcPcd,
              ws |-> ws.data]

\* Document.extractUnencryptedText
extractUnencryptedText(d) ==
    LET p == UnencryptedClx(d)
    IN  IF p.pieces THEN extractTextFromPieces(p.plcPcd, p.ws, FALSE, d.decryptor)
        ELSE p.out

EncHeaderSize == 116

\* clx, the bytes extractEncryptedText hands to d.decryptor.Decrypt
ClxBytes(d) ==
    LET clxOffset == Add32(d.fib.FcClx, U(EncHeaderSize))
    IN  Slice(TableStreamOf(d).data, Num(clxOffset), Num(Add32(clxOffset, d.fib.LcbClx)))

\* extractEncryptedText gets to its call of d.decryptor.Decrypt
ClxDecrypts(d) ==
    LET table == TableStreamOf(d)
        clxOffset == Add32(d.fib.FcClx, U(EncHeaderSize))
        end == Add32(clxOffset, d.fib.LcbClx)
    IN  /\ table.ok
        /\ Len(table.data) >= EncHeaderSize
        /\ d.fib.LcbClx # U(0)
        /\ ~Lt32(Len32(table.data), end)
        /\ ~Lt32(end, clxOffset)

\* Document.extractEncryptedText up to its call of extractTextFromPieces:
\* out is the outcome when the call ends before it (with out.dec the cipher
\* it leaves), and otherwise pieces holds, with the parsed piece table, the
\* WordDocument stream and the cipher after the CLX was decrypted; dclx is
\* the output of Decrypt(clx) and the cipher that call left
EncryptedClxWith(d, dclx) ==
    LET table == TableStreamOf(d)
        clxOffset == Add32(d.fib.FcClx, U(EncHeaderSize))
        clxSize == d.fib.LcbClx
        end == Add32(clxOffset, clxSize)
        plcPcd == ParsePlcPcd(Slice(dclx.out, 1, Len(dclx.out)))
        ws == DocReadStream(d, "WordDocument")
        Done(o) == [pieces |-> FALSE, out |-> o, plcPcd |-> <<>>, ws |-> <<>>]
    IN  IF ~table.ok THEN Done(extractTextFallback(d))
        ELSE IF Len(table.data) < EncHeaderSize
        THEN Done(ErrOut("table stream too small for encryption header", d.decryptor))
        ELSE IF clxSize = U(0) THEN Done(OkOut(<<>>, d.decryptor))
        ELSE IF Lt32(Len32(table.data), end)
        THEN Done(ErrOut("table stream too small for CLX data", d.decryptor))
        ELSE IF Lt32(end, clxOffset)
        THEN Done(PanicOut("slice bounds out of range", d.decryptor))
        ELSE IF Len(dclx.out) = 0 \/ dclx.out[1] # 2
        THEN Done(ErrOut("invalid CLX structure after decryption, expected PlcPcd marker",
                         dclx.c))
        ELSE IF plcPcd.err # ""
        THEN Done(ErrOut("failed to parse encrypted piece table", dclx.c))
        ELSE IF ~ws.ok
        THEN Done(ErrOut("failed to read WordDocument stream", dclx.c))
        ELSE [pieces |-> TRUE, out |-> OkOut(<<>>, dclx.c), plcPcd |-> plcPcd,
              ws |-> ws.data]

\* the same with the call of Decrypt run in one piece
EncryptedClx(d) == EncryptedClxWith(d, Decrypt(d.decryptor, ClxBytes(d)))

\* Document.extractEncryptedText
extractEncryptedText(d) ==
    LET p == EncryptedClx(d)
    IN  IF p.pieces THEN extractTextFromPieces(p.plcPcd, p.ws, TRUE, p.out.dec)
        ELSE p.out

\* Document.Text
Text(d) ==
    IF IsEncrypted(d.fib)
    THEN IF d.decryptor.nil
         THEN ErrOut("document is encrypted but no decryption cipher available", d.decryptor)
         ELSE extractEncryptedText(d)
    ELSE extractUnencryptedText(d)

\* the *os.File an open holds: os.Open returned it open; file.Close()
\* closes it, and returns an error when the file is closed already
OpenedFile == [kind |-> "os.File", closed |-> FALSE]

FileClose(f) ==
    IF f.closed THEN [err |-> "close: file already closed", file |-> f]
    ELSE [err |-> "", file |-> [f EXCEPT !.closed = TRUE]]

NoDoc == [kind |-> "none"]

\* Document.setupDecryption: the error, and the decryptor it leaves in d
setupDecryption(d) ==
    LET WithCipher(c) ==
            IF c.err # ""
            THEN [err |-> "failed to create decryption cipher: " \o c.err, decryptor |-> NilRC4]
            ELSE [err |-> "", decryptor |-> c.rc4]
        WithHeader(h) ==
            IF h.err # ""
            THEN [err |-> "failed to parse encryption header: " \o h.err, decryptor |-> NilRC4]
            ELSE Apply(WithCipher, CreateDecryptionCipher(h.header, d.password))
        WithStream(tableStream) ==
            IF ~tableStream.ok
            THEN [err |-> "failed to read table stream", decryptor |-> NilRC4]
            ELSE Apply(WithHeader, ParseEncryptionHeader(tableStream.data))
    IN  Apply(WithStream, DocReadStream(d, GetTableStreamName(d.fib)))

\* openWithPassword on a compound file that holds the given streams (what
\* ole2.NewReader and ReadStream make of the file is in the reader section):
\* the error, or the Document.  Open is openWithPassword with password "".
openWithPassword(streams, password) ==
    LET WithDoc(d) ==
            LET Setup(e) ==
                    IF e.err # ""
                    THEN [err |-> "failed to setup decryption: " \o e.err, doc |-> NoDoc,
                          file |-> FileClose(OpenedFile).file]
                    ELSE [err |-> "", doc |-> [d EXCEPT !.decryptor = e.decryptor],
                          file |-> OpenedFile]
            IN  IF ~IsEncrypted(d.fib) THEN [err |-> "", doc |-> d, file |-> OpenedFile]
                ELSE IF password = <<>>
                THEN [err |-> "document is encrypted but no password provided",
                      doc |-> NoDoc, file |-> OpenedFile]
                ELSE Apply(Setup, setupDecryption(d))
        WithFib(f) ==
            IF f.err # ""
            THEN [err |-> "failed to parse FIB: " \o f.err, doc |-> NoDoc,
                  file |-> FileClose(OpenedFile).file]
            ELSE Apply(WithDoc, [fib |-> f.fib, decryptor |-> NilRC4, streams |-> streams,
                                 password |-> password])
        WithStream(wordDocumentStream) ==
            IF ~wordDocumentStream.ok
            THEN [err |-> "could not find WordDocument stream", doc |-> NoDoc,
                  file |-> FileClose(OpenedFile).file]
            ELSE Apply(WithFib, ParseFIB(wordDocumentStream.data))
    IN  Apply(WithStream, streams["WordDocument"])

(***************************************************************************)
(* The documents the text extraction is run on                             *)
(***************************************************************************)

\* bounds of the enumerated documents
MaxPieces == 2      \* pieces in a piece table
MaxSmallCP == 3          \* largest CP of the small piece tables
MaxCalls == 2       \* Text() calls on one Document

\* two WordDocument streams: UTF-16LE "Hi", the Windows-1252 bytes E9 ("e acute"),
\* 41 ("A"), 80 (the euro sign) and an unpaired high surrogate D83D; and a twin
\* holding a surrogate pair
WordStreams ==
    { <<72, 0, 105, 0, 233, 65, 61, 216>>,
      <<61, 216, 0, 222, 128, 66, 67, 0>> }

Bit30 == <<16384, 0>>

\* packed FC words: 8-bit and 16-bit pieces at several offsets
FcSmall == { U(0), U(4), U(5), Add32(Bit30, U(0)), Add32(Bit30, U(8)), Add32(Bit30, U(12)) }

\* CPs and FCs at the edges of the 32-bit range
BigCPs == { <<32768, 0>>, <<32768, 1>>, <<65535, 65535>>, <<32767, 65535>> }
FcEdge == FcSmall \cup { U(2), <<16383, 65535>>, <<32767, 65535>>, <<65535, 65535>> }

\* the bytes of a PCD with the given flags and packed FC (prm = 0)
PcdBytes(flags, fc) == PutLE16(flags) \o PutLE32(fc) \o <<0, 0>>

\* the bytes of a PlcPcd: the CPs, then the PCDs
PlcBytes(cps, pcds) ==
    Flatten([i \in 1..Len(cps) |-> PutLE32(cps[i])]) \o Flatten(pcds)

SmallCPs == { U(n) : n \in 0..MaxSmallCP }

\* piece tables with small CPs (in any order) and one or two pieces
SmallPlcs ==
    { PlcBytes(<<a, b>>, <<PcdBytes(0, f)>>) : a \in SmallCPs, b \in SmallCPs, f \in FcSmall }
    \cup
    IF MaxPieces < 2 THEN {}
    ELSE { PlcBytes(<<U(0), b, c>>, <<PcdBytes(0, f), PcdBytes(1, g)>>) :
              b \in SmallCPs, c \in SmallCPs, f \in FcSmall, g \in FcSmall }

\* piece tables with a CP or an FC at the edge of the 32-bit range
EdgePlcs ==
    { PlcBytes(<<a, b>>, <<PcdBytes(0, f)>>) :
         a \in {U(0), U(2)}, b \in BigCPs, f \in FcEdge }

\* the shapes a CLX around the PlcPcd payload p comes in: the tag 0x02 directly
\* followed by the payload; the tag, a 4-byte length and the payload; each of
\* them after a Prc block (tag 0x01, 2-byte length, payload); another tag
ClxShapes(p) ==
    { <<2>> \o p,
      <<2>> \o PutLE32(U(Len(p))) \o p,
      <<1, 1, 0, 7, 2>> \o p,
      <<1, 1, 0, 7, 2>> \o PutLE32(U(Len(p))) \o p,
      <<3>> \o p,
      <<2>> \o p \o <<0>> }

NoStream == [ok |-> FALSE, data |-> <<>>]
Stream(b) == [ok |-> TRUE, data |-> b]

\* an unencrypted Document: the FIB says 1Table (flags1 = 0x0200) or 0Table
PlainDoc(flags1, fcClx, lcbClx, t0, t1, ws) ==
    [fib |-> [Flags1 |-> flags1, FcClx |-> fcClx, LcbClx |-> lcbClx],
     decryptor |-> NilRC4,
     streams |-> [n \in {"WordDocument", "0Table", "1Table"} |->
                    IF n = "WordDocument" THEN Stream(ws)
                    ELSE IF n = "0Table" THEN t0 ELSE t1]]

\* documents whose CLX is the tag 0x02 and a small piece table, at fcClx = 0
SmallDocs ==
    { PlainDoc(512, U(0), U(1 + Len(p)), NoStream, Stream(<<2>> \o p), ws) :
         p \in SmallPlcs, ws \in WordStreams }

EdgeDocs ==
    { PlainDoc(512, U(0), U(1 + Len(p)), NoStream, Stream(<<2>> \o p), ws) :
         p \in EdgePlcs, ws \in WordStreams }

ShapePlcs ==
    { PlcBytes(<<U(0), U(2)>>, <<PcdBytes(0, f)>>) : f \in {U(4), Add32(Bit30, U(0))} }

\* a document whose table stream holds the CLX c after off other bytes, under
\* the name 0Table (where = 0), 1Table (where = 1) or not at all (where = 2);
\* lcbClx is the length of c plus delta, or 0
ShapeDoc(fl, off, lcb, where, c) ==
    PlainDoc(fl, U(off), U(lcb),
             IF where = 0 THEN Stream(Repeat(9, off) \o c) ELSE NoStream,
             IF where = 1 THEN Stream(Repeat(9, off) \o c) ELSE NoStream,
             <<72, 0, 105, 0, 233, 65, 61, 216>>)

\* documents whose CLX has one of the shapes, at fcClx = 0 or 3
ShapeDocs ==
    UNION { { ShapeDoc(fl, off, lcb, where, c) :
                 fl \in {0, 512}, off \in {0, 3}, where \in 0..2,
                 lcb \in {0, Len(c), Len(c) + 1} } :
            c \in UNION { ClxShapes(p) : p \in ShapePlcs } }

\* documents without a piece table (lcbClx = 0) whose WordDocument stream is
\* longer than the first offset extractTextFallback looks at: 1024 bytes and
\* then "Hello, world!", or 1024 bytes and then a short word
FallbackStreams ==
    { Repeat(0, 1024) \o <<72, 101, 108, 108, 111, 44, 32, 119, 111, 114, 108, 100, 33>>,
      Repeat(0, 1024) \o <<72, 105>>,
      Repeat(65, 1024) }

FallbackDocs ==
    { PlainDoc(fl, U(0), U(0), NoStream, t1, ws) :
         fl \in {0, 512}, t1 \in {NoStream, Stream(<<>>), Stream(<<2, 0, 0, 0, 0>>)},
         ws \in FallbackStreams }

\* documents whose fcClx + lcbClx wraps around 2^32
WrapDocs ==
    { PlainDoc(512, fc, U(2), NoStream, Stream(<<2>> \o p), <<72, 0, 105, 0>>) :
         fc \in { <<65535, 65535>>, <<65535, 65534>> }, p \in ShapePlcs }

(***************************************************************************)
(* Encrypted documents.  openWithPassword leaves d.decryptor = NewRC4(key) *)
(* with the key GenerateDecryptionKey derives; the documents below are the *)
(* ones a first Text() call decrypts: the CLX and then the encrypted       *)
(* pieces, in piece order, are one RC4 stream under that key.              *)
(***************************************************************************)

Keys == { <<1, 2, 3, 4, 5>>, <<200, 17, 0, 99, 42, 7, 250, 3, 64, 128, 1, 2, 3, 4, 5, 6>> }

RECURSIVE EncryptPieces(_, _, _, _)
EncryptPieces(plcPcd, ws, i, c) ==
    IF i > Count(plcPcd) THEN ws
    ELSE
    LET pcd == plcPcd.Pieces[i]
        charCount == Distance(plcPcd.CPs[i], plcPcd.CPs[i + 1])
        lo == Num(GetActualFC(pcd))
        hi == lo + (IF pcd.IsUnicode THEN 2 * Num(charCount) ELSE Num(charCount))
        r == Decrypt(c, Slice(ws, lo, hi))
    IN  IF charCount = U(0) \/ pcd.FNoEncryption \/ hi > Len(ws)
        THEN EncryptPieces(plcPcd, ws, i + 1, c)
        ELSE EncryptPieces(plcPcd, Slice(ws, 0, lo) \o r.out \o Slice(ws, hi, Len(ws)),
                           i + 1, r.c)

\* the piece tables of the encrypted documents: pieces that do not overlap
EncPlcs ==
    { PlcBytes(<<U(0), U(2)>>, <<PcdBytes(fl, f)>>) :
         fl \in {0, 1}, f \in {U(4), Add32(Bit30, U(0))} }
    \cup
    { PlcBytes(<<U(0), U(2), U(b)>>, <<PcdBytes(0, Add32(Bit30, U(0))), PcdBytes(fl, U(4))>>) :
         fl \in {0, 1}, b \in {2, 4} }

\* the Document for the plaintext piece table p and WordDocument stream ws
\* under key; flags1 = 0x0300 (fEncrypted, 1Table)
EncDoc(key, p, ws) ==
    LET c0 == NewRC4(key)
        clx == Decrypt(c0, <<2>> \o p)
    IN  [fib |-> [Flags1 |-> 768, FcClx |-> U(0), LcbClx |-> U(1 + Len(p))],
         decryptor |-> c0,
         streams |-> [n \in {"WordDocument", "0Table", "1Table"} |->
                        IF n = "WordDocument"
                        THEN Stream(EncryptPieces(ParsePlcPcd(p), ws, 1, clx.c))
                        ELSE IF n = "1Table"
                        THEN Stream(Repeat(0, EncHeaderSize) \o clx.out)
                        ELSE NoStream]]

EncDocs == { EncDoc(key, p, ws) : key \in Keys, p \in EncPlcs, ws \in WordStreams }

Docs == SmallDocs \cup EdgeDocs \cup ShapeDocs \cup WrapDocs \cup FallbackDocs \cup EncDocs

(***************************************************************************)
(* Sequential use of one Document: Text() calls one after the other        *)
(***************************************************************************)

\* the OLE2 and the goroutine variables are not used by this specification
NoFile == [kind |-> "none"]
NoThreads == <<>>
NoCall == [fn |-> "none"]

Init ==
    /\ doc \in Docs
    /\ results = <<>>
    /\ crashed = FALSE
    /\ file = NoFile
    /\ reader = NoFile
    /\ reads = <<>>
    /\ thr = NoThreads
    /\ input = NoCall
    /\ output = NoCall

\* the caller's view of an outcome: the string and the error (or the panic)
Returned(o) == [kind |-> o.kind, text |-> o.text, err |-> o.err]

\* text, err := d.Text()
CallText ==
    /\ ~crashed
    /\ Len(results) < MaxCalls
    /\ LET o == Text(doc)
       IN  /\ results' = Append(results, Returned(o))
           /\ doc' = [doc EXCEPT !.decryptor = o.dec]
           /\ crashed' = (o.kind = "panic")
    /\ UNCHANGED <<file, reader, reads, thr, input, output>>

Next == CallText

Spec == Init /\ [][Next]_vars

(***************************************************************************)
(* What the specification says of the text: the reading of a piece table   *)
(***************************************************************************)

\* Windows-1252: the code points of the bytes 0x80 .. 0x9F
Cp1252High ==
    <<8364, 129, 8218, 402, 8222, 8230, 8224, 8225, 710, 8240, 352, 8249, 338, 141, 381, 143,
      144, 8216, 8217, 8220, 8221, 8226, 8211, 8212, 732, 8482, 353, 8250, 339, 157, 382, 376>>

Cp1252(b) == IF b >= 128 /\ b < 160 THEN Cp1252High[b - 127] ELSE b

\* the document is unencrypted and its table stream, under the name the FIB
\* gives, holds at fcClx the tag 0x02 followed by a piece table
HasPlainPieceTable(d) ==
    /\ ~IsEncrypted(d.fib)
    /\ DocReadStream(d, GetTableStreamName(d.fib)).ok
    /\ d.fib.LcbClx # U(0)
    /\ Fits(d.fib.FcClx) /\ Fits(d.fib.LcbClx)
    /\ Num(d.fib.FcClx) + Num(d.fib.LcbClx)
          <= Len(DocReadStream(d, GetTableStreamName(d.fib)).data)
    /\ LET t == DocReadStream(d, GetTableStreamName(d.fib)).data
           clx == Slice(t, Num(d.fib.FcClx), Num(d.fib.FcClx) + Num(d.fib.LcbClx))
       IN  clx[1] = 2 /\ ParsePlcPcd(Slice(clx, 1, Len(clx))).err = ""

\* the piece table of such a document
PieceTableOf(d) ==
    LET t == DocReadStream(d, GetTableStreamName(d.fib)).data
        clx == Slice(t, Num(d.fib.FcClx), Num(d.fib.FcClx) + Num(d.fib.LcbClx))
    IN  ParsePlcPcd(Slice(clx, 1, Len(clx)))

\* piece i of plc has cnt # 0 characters and its byte range, computed without
\* wrap-around, is not inside a stream of n bytes
PieceOutside(plc, i, n) ==
    LET cnt == Distance(plc.CPs[i], plc.CPs[i + 1])
        pos == GetActualFC(plc.Pieces[i])
        width == IF plc.Pieces[i].IsUnicode THEN 2 ELSE 1
    IN  /\ cnt # U(0)
        /\ \/ ~Fits(pos)
           \/ Num(pos) > n
           \/ ~Fits(cnt)
           \/ Num(cnt) > (n - Num(pos)) \div width

\* a valid document: the CPs do not decrease and every piece lies in the stream
ValidPlainDoc(d) ==
    /\ HasPlainPieceTable(d)
    /\ LET plc == PieceTableOf(d)
       IN  /\ \A i \in 1..Count(plc) : ~Lt32(plc.CPs[i + 1], plc.CPs[i])
           /\ \A i \in 1..Count(plc) :
                 ~PieceOutside(plc, i, Len(DocReadStream(d, "WordDocument").data))

\* the text of piece i as the specification has it: cnt bytes read as
\* Windows-1252, or 2*cnt bytes read as UTF-16LE, from the piece's offset
ClaimedPieceText(plc, i, ws) ==
    LET cnt == Num(Distance(plc.CPs[i], plc.CPs[i + 1]))
        pos == Num(GetActualFC(plc.Pieces[i]))
    IN  IF plc.Pieces[i].IsUnicode
        THEN Utf8(Utf16Decode([j \in 1..cnt |-> LE16(ws, pos + (j - 1) * 2)]))
        ELSE Utf8([j \in 1..cnt |-> Cp1252(ws[pos + j])])

ClaimedText(d) ==
    LET plc == PieceTableOf(d)
    IN  Flatten([i \in 1..Count(plc) |->
                    ClaimedPieceText(plc, i, DocReadStream(d, "WordDocument").data)])

\* C1 (as claimed): on a valid unencrypted document Text() returns the
\* concatenation, in piece order, of the pieces' texts, an 8-bit piece of cnt
\* characters being cnt bytes decoded as Windows-1252 and a Unicode piece
\* 2*cnt bytes decoded as UTF-16LE.
C1_TextIsDecodedPieces ==
    (Len(results) >= 1 /\ ValidPlainDoc(doc))
        => (results[1].kind = "ok" /\ results[1].text = ClaimedText(doc))

\* C2 (as claimed): two Text() calls on one Document return the same string
\* and the same error.
C2_TextTwiceEqual ==
    Len(results) >= 2 => results[1] = results[2]

\* C4 (as claimed): when a piece's byte range is not inside the WordDocument
\* stream, Text() returns an error and no text, whatever the 32-bit values of
\* the CPs and of the FC; it does not panic.
C4_PieceOutsideIsError ==
    (/\ Len(results) >= 1
     /\ HasPlainPieceTable(doc)
     /\ \E i \in 1..Count(PieceTableOf(doc)) :
           PieceOutside(PieceTableOf(doc), i, Len(DocReadStream(doc, "WordDocument").data)))
        => (results[1].kind = "err" /\ results[1].text = <<>>)

\* the CLX scan of the specification from Go offset pos: the PlcPcd payload,
\* or malformed
RECURSIVE ClaimedClxScan(_, _)
ClaimedClxScan(clx, pos) ==
    IF pos >= Len(clx) THEN [malformed |-> TRUE, payload |-> <<>>]
    ELSE IF clx[pos + 1] = 1
    THEN IF pos + 3 > Len(clx) THEN [malformed |-> TRUE, payload |-> <<>>]
         ELSE ClaimedClxScan(clx, pos + 3 + LE16(clx, pos + 1))
    ELSE IF clx[pos + 1] = 2
    THEN IF pos + 5 > Len(clx) \/ ~Fits(LE32(clx, pos + 1))
            \/ pos + 5 + Num(LE32(clx, pos + 1)) > Len(clx)
         THEN [malformed |-> TRUE, payload |-> <<>>]
         ELSE [malformed |-> FALSE,
               payload |-> Slice(clx, pos + 5, pos + 5 + Num(LE32(clx, pos + 1)))]
    ELSE [malformed |-> TRUE, payload |-> <<>>]

\* the document is unencrypted and the CLX range of its FIB lies in its table stream
HasClx(d) ==
    /\ ~IsEncrypted(d.fib)
    /\ DocReadStream(d, GetTableStreamName(d.fib)).ok
    /\ d.fib.LcbClx # U(0)
    /\ Fits(d.fib.FcClx) /\ Fits(d.fib.LcbClx)
    /\ Num(d.fib.FcClx) + Num(d.fib.LcbClx)
          <= Len(DocReadStream(d, GetTableStreamName(d.fib)).data)

ClxOf(d) ==
    Slice(DocReadStream(d, GetTableStreamName(d.fib)).data,
          Num(d.fib.FcClx), Num(d.fib.FcClx) + Num(d.fib.LcbClx))

\* C10 (as claimed): Text() skips the Prc blocks (tag 0x01, 2-byte length),
\* takes the PlcPcd from the L bytes that follow the 4-byte length L of the
\* first block tagged 0x02, and fails on any other tag.
C10_ClxScan ==
    (Len(results) >= 1 /\ HasClx(doc)) =>
        LET scan == ClaimedClxScan(ClxOf(doc), 0)
            plc == ParsePlcPcd(scan.payload)
        IN  IF scan.malformed \/ plc.err # "" THEN results[1].kind = "err"
            ELSE results[1] =
                   Returned(extractTextFromPieces(plc, DocReadStream(doc, "WordDocument").data,
                                                  FALSE, NilRC4))

\* C14 (as claimed): when lcbClx of the FIB is 0, Text() returns the empty
\* string and no error, whatever the streams hold (stated for unencrypted
\* documents whose WordDocument stream can be read).
C14_NoPieceTableNoText ==
    (/\ doc.fib.LcbClx = U(0)
     /\ ~IsEncrypted(doc.fib)
     /\ DocReadStream(doc, "WordDocument").ok)
    => \A k \in 1..Len(results) : results[k] = Returned(OkOut(<<>>, NilRC4))

(***************************************************************************)
(* The compound files the reader is run on                                 *)
(***************************************************************************)

MaxReads == 2       \* ReadStream / ListStreams calls on one Reader

\* stream names, as the bytes of the Go string
NameA == <<65>>
NameW == <<87>>
NameT == <<84>>

CompoundFile(shift, h44, h48, h60, difat, blocks, logical) ==
    [sig |-> TRUE, h30 |-> shift, h44 |-> h44, h48 |-> h48, h56 |-> 4096, h60 |-> h60,
     h68 |-> 0, h72 |-> ENDOFCHAIN, difat |-> difat, blocks |-> blocks, logical |-> logical]

HeaderBlock == DataBlock("header", 0)

\* what a FAT entry of the small files may hold: a sentinel, one of the
\* sectors 1 .. 4, or a sector beyond the end of the file
FatVals == {ENDOFCHAIN, FREESECT, 1, 2, 3, 4, 9}

\* files with 512-byte sectors: sector 0 is the FAT (its own FAT entry is
\* 0xFFFFFFFD, the value below ENDOFCHAIN), sector 1 the directory
\* (its FAT entry x1 ends the chain or points back at it), sectors 2 and 3
\* hold the stream A, sector 4 is the mini-stream of the root entry and
\* sector 5 the mini-FAT (mini-sector 0 -> 1 -> end).  The stream's FAT
\* entries x2 and x3, its start and its size are free, and so are the size
\* of the root entry and the FAT sector count (h44) of the header.
SmallFile(h44, x1, x2, x3, rootSize, start, size) ==
    CompoundFile(9, h44, 1, 5, <<0>>,
        << HeaderBlock,
           FatBlock(<<ENDOFCHAIN - 1, x1, x2, x3, ENDOFCHAIN, ENDOFCHAIN>>),
           DirBlock(<<RootEntry(4, rootSize), StreamEntry(NameA, start, size)>>),
           DataBlock("A", 0), DataBlock("A", 1), DataBlock("mini", 0),
           [FatBlock(<<1, ENDOFCHAIN>>) EXCEPT !.label = <<"minifat", 0>>] >>,
        <<>>)

StreamSizes == {0, 12, 100, 512, 600, 1024, 1536, 4096}

SmallFiles ==
    { SmallFile(h44, x1, x2, x3, rootSize, start, size) :
         h44 \in {0, 1}, x1 \in {ENDOFCHAIN, 1}, x2 \in FatVals, x3 \in FatVals,
         rootSize \in {0, 128}, start \in {0, 2, 3, ENDOFCHAIN}, size \in StreamSizes }

\* a logical file: the streams W and T with their sizes, laid out in sectors
\* of 2^shift bytes.  Sector 0 is the FAT, sector 1 the directory, and the
\* streams follow, each on consecutive sectors chained in the FAT.
SectorsFor(size, shift) == (size + (2 ^ shift) - 1) \div (2 ^ shift)

\* the blocks of one sector, given its first block and the block that pads it
SectorBlocks(first, pad, shift) == <<first>> \o Repeat(pad, (2 ^ (shift - 9)) - 1)

\* the FAT entries of a chain of n sectors that starts at sector s
ChainEntries(s, n) == [k \in 1..n |-> IF k = n THEN ENDOFCHAIN ELSE s + k]

LaidOut(sizeW, sizeT, shift) ==
    LET nW == SectorsFor(sizeW, shift)
        nT == SectorsFor(sizeT, shift)
        per == 2 ^ (shift - 9)
    IN  CompoundFile(shift, 1, 1, ENDOFCHAIN, <<0>>,
            SectorBlocks(HeaderBlock, ZeroBlock, shift)
            \o SectorBlocks(FatBlock(<<ENDOFCHAIN - 1, ENDOFCHAIN>> \o ChainEntries(2, nW)
                                        \o ChainEntries(2 + nW, nT)),
                            FatBlock(<<>>), shift)
            \o SectorBlocks(DirBlock(<<RootEntry(ENDOFCHAIN, 0),
                                       StreamEntry(NameW, 2, sizeW),
                                       StreamEntry(NameT, 2 + nW, sizeT)>>),
                            ZeroBlock, shift)
            \o [k \in 1..(nW * per) |-> DataBlock("W", k - 1)]
            \o [k \in 1..(nT * per) |-> DataBlock("T", k - 1)],
            <<sizeW, sizeT>>)

LaidOutFiles ==
    { LaidOut(sizeW, sizeT, shift) : sizeW \in {4096, 4608}, sizeT \in {4096, 5000},
                                     shift \in {9, 12} }

\* a file cut short, and one with another signature
BrokenFiles ==
    { [LaidOut(4096, 4096, 9) EXCEPT !.blocks = <<>>],
      [LaidOut(4096, 4096, 9) EXCEPT !.blocks = SubSeq(@, 1, 2)],
      [LaidOut(4096, 4096, 9) EXCEPT !.sig = FALSE] }

\* files whose directory starts at sector 1 and whose sectors 2 and 3 may hold
\* directory entries as well (the streams W and T): the FAT entries x1 and x2
\* say which of them the directory chain goes through, and sector 2 holds
\* either directory entries or the first bytes of a stream.  Sector 4 is the
\* one sector of every stream.
DirFile(x1, x2, second) ==
    CompoundFile(9, 1, 1, ENDOFCHAIN, <<0>>,
        << HeaderBlock,
           FatBlock(<<ENDOFCHAIN - 1, x1, x2, ENDOFCHAIN, ENDOFCHAIN>>),
           DirBlock(<<RootEntry(ENDOFCHAIN, 0), StreamEntry(NameA, 4, 100)>>),
           IF second = "dir" THEN DirBlock(<<StreamEntry(NameW, 4, 100)>>)
           ELSE DataBlock("B", 0),
           DirBlock(<<StreamEntry(NameT, 4, 100)>>),
           DataBlock("A", 0) >>,
        <<>>)

DirFiles ==
    { DirFile(x1, x2, second) :
         x1 \in {ENDOFCHAIN, 2, 3}, x2 \in {ENDOFCHAIN, 3}, second \in {"dir", "data"} }

Files == SmallFiles \cup LaidOutFiles \cup BrokenFiles \cup DirFiles

(***************************************************************************)
(* Use of one Reader: NewReader, then ReadStream and ListStreams calls     *)
(***************************************************************************)

Unopened == [state |-> "new", err |-> "", fat |-> <<>>, dirEntries |-> <<>>]

InitOle2 ==
    /\ file \in Files
    /\ reader = Unopened
    /\ reads = <<>>
    /\ doc = NoDoc
    /\ results = <<>>
    /\ crashed = FALSE
    /\ thr = NoThreads
    /\ input = NoCall
    /\ output = NoCall

\* r, err := ole2.NewReader(file)
OpenReader ==
    /\ reader.state = "new"
    /\ LET r == NewReader(file)
       IN  reader' = IF r.err # ""
                     THEN [state |-> "failed", err |-> r.err, fat |-> <<>>, dirEntries |-> <<>>]
                     ELSE [state |-> "open", err |-> "", fat |-> r.fat,
                           dirEntries |-> r.dirEntries]
    /\ UNCHANGED <<file, reads, doc, results, crashed, thr, input, output>>

\* what a block list holds: the label of each block with the bytes taken
Content(f, data) == [k \in 1..Len(data) |-> <<f.blocks[data[k][1] + 1].label, data[k][2]>>]

\* data, err := r.ReadStream(name); entry is the index of the entry found
DoReadStream(name) ==
    /\ reader.state = "open"
    /\ Len(reads) < MaxReads
    /\ LET o == ReadStream(file, reader, name)
       IN  reads' = Append(reads, [op |-> "read", name |-> name,
                                   entry |-> FindStream(reader, name, 1),
                                   err |-> o.err, data |-> o.data, visits |-> o.visits,
                                   names |-> <<>>])
    /\ UNCHANGED <<file, reader, doc, results, crashed, thr, input, output>>

\* names := r.ListStreams()
DoListStreams ==
    /\ reader.state = "open"
    /\ Len(reads) < MaxReads
    /\ reads' = Append(reads, [op |-> "list", name |-> <<>>, entry |-> 0,
                               err |-> "", data |-> <<>>, visits |-> 0,
                               names |-> ListStreams(reader)])
    /\ UNCHANGED <<file, reader, doc, results, crashed, thr, input, output>>

NextOle2 ==
    \/ OpenReader
    \/ \E name \in {NameA, NameW, NameT} : DoReadStream(name)
    \/ DoListStreams

SpecOle2 == InitOle2 /\ [][NextOle2]_vars

(***************************************************************************)
(* Properties of the reader                                                *)
(***************************************************************************)

\* read k is a ReadStream call that found its directory entry
IsRead(k) == reads[k].op = "read" /\ reads[k].entry # 0
EntryOf(k) == reader.dirEntries[reads[k].entry]

\* the sectors a FAT chain goes through in its first n steps from sector s
RECURSIVE ChainPrefix(_, _, _)
ChainPrefix(r, s, n) ==
    IF n <= 0 \/ s < 0 \/ s >= FatLen(r) THEN <<>>
    ELSE <<s>> \o ChainPrefix(r, FatAt(r, s), n - 1)

Revisits(seq) == \E a, b \in 1..Len(seq) : a < b /\ seq[a] = seq[b]

SectorsNeeded(size) == (size + sectorSize - 1) \div sectorSize

\* the stream of an entry is kept in regular sectors, as section 4.3 of the
\* specification puts it: its size reaches the cutoff of the header, or the
\* root entry holds no mini-stream
IsRegular(e) == e.StreamSize >= file.h56 \/ reader.dirEntries[1].StreamSize = 0

BlocksOf(data) == [k \in 1..Len(data) |-> data[k][1]]
SectorsOf(data) == [k \in 1..Len(data) |-> data[k][1] - 1]

RECURSIVE TotalBytes(_)
TotalBytes(data) == IF data = <<>> THEN 0 ELSE data[1][2] + TotalBytes(Tail(data))

\* C5 (as claimed): when the FAT chain followed for the directory or for a
\* stream contains a cycle, opening or ReadStream returns an error instead
\* of data: an opened reader has a directory chain without a cycle, and a
\* ReadStream of a regular stream whose chain comes back to a sector within
\* the sectors it needs returns an error.
C5_CycleIsCorrupt ==
    /\ reader.state = "open" =>
          ~Revisits(ChainPrefix(reader, file.h48, Len(file.blocks)))
    /\ \A k \in 1..Len(reads) :
          (/\ IsRead(k)
           /\ IsRegular(EntryOf(k))
           /\ Revisits(ChainPrefix(reader, EntryOf(k).StartingSector,
                                   SectorsNeeded(EntryOf(k).StreamSize))))
          => reads[k].err # ""

\* C6: one ReadStream call reads at most ceil(StreamSize / sectorSize)
\* sectors, whatever the FAT chain of the stream is.
C6_WalkIsBounded ==
    \A k \in 1..Len(reads) :
        IsRead(k) => reads[k].visits <= SectorsNeeded(EntryOf(k).StreamSize)

\* a ReadStream call went round a cyclic chain until the stream size was used up
C6_Witness ==
    \E k \in 1..Len(reads) :
        /\ IsRead(k)
        /\ reads[k].err = ""
        /\ Revisits(BlocksOf(reads[k].data))
        /\ reads[k].visits = SectorsNeeded(EntryOf(k).StreamSize)
        /\ reads[k].visits >= 3

\* C8 (as claimed): a ReadStream that succeeds returns exactly StreamSize
\* bytes, taken from the sectors of the stream's FAT chain in chain order
\* (stated for the streams kept in regular sectors).
C8_ExactlyStreamSize ==
    \A k \in 1..Len(reads) :
        (IsRead(k) /\ IsRegular(EntryOf(k)) /\ reads[k].err = "")
        => /\ TotalBytes(reads[k].data) = EntryOf(k).StreamSize
           /\ SectorsOf(reads[k].data)
                 = ChainPrefix(reader, EntryOf(k).StartingSector, Len(reads[k].data))

\* the byte ranges <<offset, n>> of the file a block list stands for, and a
\* list of byte ranges with adjoining ranges joined
RangesOf(data) == [k \in 1..Len(data) |-> <<sectorSize * data[k][1], data[k][2]>>]

RECURSIVE Joined(_)
Joined(rs) ==
    IF Len(rs) < 2 THEN rs
    ELSE IF rs[1][1] + rs[1][2] = rs[2][1]
         THEN Joined(<<<<rs[1][1], rs[1][2] + rs[2][2]>>>> \o SubSeq(rs, 3, Len(rs)))
         ELSE <<rs[1]>> \o Joined(Tail(rs))

\* The read of a stream from the mini-stream as section 4.3 of the
\* specification describes it: the mini-stream is the data of the root
\* entry (its regular chain), cut in mini-sectors of 64 bytes; the stream's
\* chain is followed in the mini-FAT, whose first sector is at header
\* offset 60.  The result is the byte ranges read, or an error when the
\* chain ends early or leaves the mini-stream.
RECURSIVE ClaimedMiniWalk(_, _, _, _, _)
ClaimedMiniWalk(f, r, m, remainingSize, ranges) ==
    LET miniSectorSize == 64
        root == r.dirEntries[1]
        rootSectors == ChainPrefix(r, root.StartingSector, SectorsNeeded(root.StreamSize))
        at == miniSectorSize * m
        n == IF remainingSize < miniSectorSize THEN remainingSize ELSE miniSectorSize
    IN  IF remainingSize = 0 THEN [err |-> "", ranges |-> ranges]
        ELSE IF \/ m < 0 \/ at + miniSectorSize > root.StreamSize
                \/ (at \div sectorSize) + 1 > Len(rootSectors)
                \/ ~CanRead(f, f.h60 + 1)
        THEN [err |-> "corrupt", ranges |-> <<>>]
        ELSE ClaimedMiniWalk(f, r, U32At(f.blocks[f.h60 + 2], m), remainingSize - n,
                Append(ranges,
                       <<sectorSize * (rootSectors[(at \div sectorSize) + 1] + 1)
                            + (at % sectorSize), n>>))

\* C7 (as claimed): a stream smaller than the mini-stream cutoff of the
\* header is read from the mini-stream, unless the root entry's size is 0;
\* every other stream is read from the regular sectors of its FAT chain.
C7_SmallStreamsFromMiniStream ==
    \A k \in 1..Len(reads) :
        (IsRead(k) /\ FatLen(reader) > 0) =>
           IF IsRegular(EntryOf(k))
           THEN reads[k].err = "" =>
                   SectorsOf(reads[k].data)
                      = ChainPrefix(reader, EntryOf(k).StartingSector, Len(reads[k].data))
           ELSE LET c == ClaimedMiniWalk(file, reader, EntryOf(k).StartingSector,
                                         EntryOf(k).StreamSize, <<>>)
                IN  IF c.err # "" THEN reads[k].err # ""
                    ELSE /\ reads[k].err = ""
                         /\ Joined(RangesOf(reads[k].data)) = Joined(c.ranges)

\* the same logical file laid out in 512-byte sectors
Twin(f) == LaidOut(f.logical[1], f.logical[2], 9)

\* C9 (as claimed): a file with sector shift 12 opens, and lists and reads
\* its streams exactly as the same logical file laid out with sector shift 9.
C9_Shift12SameAsShift9 ==
    (file.h30 = 12 /\ Len(file.logical) = 2) =>
        /\ reader.state # "failed"
        /\ \A k \in 1..Len(reads) :
              IF reads[k].op = "list"
              THEN reads[k].names = ListStreams(NewReader(Twin(file)))
              ELSE LET t == ReadStream(Twin(file), NewReader(Twin(file)), reads[k].name)
                   IN  /\ reads[k].err = t.err
                       /\ Content(file, reads[k].data) = Content(Twin(file), t.data)

\* the sectors of the directory as the specification has it: the FAT chain
\* from first_dir_sector (header offset 48) up to ENDOFCHAIN
ClaimedDirSectors == ChainPrefix(reader, file.h48, Len(file.blocks))

\* C27 (as claimed): the directory NewReader builds is made of exactly the
\* sectors on the FAT chain that starts at first_dir_sector, in chain order,
\* split into 128-byte entries (stated for files with 512-byte sectors whose
\* FAT was loaded and whose directory chain has no cycle and stays inside
\* the file).
C27_DirectoryFromFatChain ==
    (/\ reader.state = "open"
     /\ file.h30 = 9
     /\ ClaimedDirSectors # <<>>
     /\ ~Revisits(ClaimedDirSectors)
     /\ \A k \in 1..Len(ClaimedDirSectors) : CanRead(file, ClaimedDirSectors[k] + 1))
    => reader.dirEntries
          = Flatten([k \in 1..Len(ClaimedDirSectors) |->
                        file.blocks[ClaimedDirSectors[k] + 2].dir])

(***************************************************************************)
(* Concurrent use of one Document: two goroutines call Text() on it.  The  *)
(* calls share d.decryptor and RC4.Decrypt is their only access to it.     *)
(* Nothing orders the Decrypt calls of two goroutines (a data race), so a  *)
(* step of a goroutine inside Decrypt is one read or one write of rc4.i,   *)
(* rc4.j or an entry of rc4.s, in the order the statement evaluates them;  *)
(* what it has read so far, data, k and output are the goroutine's own.    *)
(***************************************************************************)

Goroutines == {1, 2}

\* an encrypted Document whose CLX is the one byte b: flags1 = 0x0300
\* (fEncrypted, 1Table), fcClx = 0, lcbClx = 1
OneByteClxDoc(key, b, ws) ==
    [fib |-> [Flags1 |-> 768, FcClx |-> U(0), LcbClx |-> U(1)],
     decryptor |-> NewRC4(key),
     streams |-> [n \in {"WordDocument", "0Table", "1Table"} |->
                    IF n = "WordDocument" THEN Stream(ws)
                    ELSE IF n = "1Table" THEN Stream(Repeat(0, EncHeaderSize) \o <<b>>)
                    ELSE NoStream]]

\* the encrypted documents two goroutines read: the CLX byte is the marker
\* 0x02 under the first byte of the key stream, or a zero byte
ConcEncDocs ==
    { OneByteClxDoc(key, b, <<72, 0, 105, 0, 233, 65, 61, 216>>) :
         key \in Keys, b \in {0} }
    \cup
    { OneByteClxDoc(key, Decrypt(NewRC4(key), <<2>>).out[1], <<72, 0, 105, 0, 233, 65, 61, 216>>) :
         key \in Keys }

ConcDocs == ConcEncDocs \cup SmallDocs

\* a goroutine: pc is "idle" before its call, "decrypt" inside a call of
\* Decrypt, "pieces" at the head of the loop of extractTextFromPieces (at
\* piece i, with the text written so far; enc is its parameter isEncrypted)
\* and "done" after the call, with out what it returned.  Inside Decrypt, at
\* is the call site ("clx" or "piece"), data the argument, k the loop
\* counter, stmt the statement of the round it is in, regs what the accesses
\* of that statement made so far have read, and output the bytes written so
\* far.  alone is what Text() returns when it is the only call on the
\* Document as constructed
Idle(d) == [pc |-> "idle", plcPcd |-> <<>>, i |-> 0, text |-> <<>>, enc |-> FALSE,
            at |-> "", data |-> <<>>, k |-> 0, stmt |-> "", regs |-> <<>>,
            output |-> <<>>,
            out |-> Returned(OkOut(<<>>, NilRC4)), alone |-> Returned(Text(d))]

InitConc ==
    /\ doc \in ConcDocs
    /\ thr = [t \in Goroutines |-> Idle(doc)]
    /\ results = <<>>
    /\ crashed = FALSE
    /\ file = NoFile
    /\ reader = NoFile
    /\ reads = <<>>
    /\ input = NoCall
    /\ output = NoCall

Finish(t, o) == [thr EXCEPT ![t].pc = "done", ![t].out = Returned(o)]

\* goroutine t enters rc4.Decrypt(data) from the call site at:
\* output := make([]byte, len(data)) and k := 0
EnterDecrypt(t, at, data) ==
    [thr EXCEPT ![t].pc = "decrypt", ![t].at = at, ![t].data = data, ![t].k = 0,
                ![t].stmt = "i++", ![t].regs = <<>>, ![t].output = <<>>]

\* goroutine t goes on to the loop over the pieces, or returns o
EnterPieces(t, p, enc) ==
    IF p.pieces
    THEN [thr EXCEPT ![t].pc = "pieces", ![t].plcPcd = p.plcPcd, ![t].i = 1,
                     ![t].enc = enc]
    ELSE Finish(t, p.out)

\* goroutine t calls d.Text() and runs it up to its first call of Decrypt
\* or, when it makes none before it, up to the loop over the pieces
GoText(t) ==
    /\ ~crashed
    /\ thr[t].pc = "idle"
    /\ IF IsEncrypted(doc.fib)
       THEN IF doc.decryptor.nil \/ ~ClxDecrypts(doc)
            THEN LET o == Text(doc)
                 IN  /\ thr' = Finish(t, o)
                     /\ crashed' = (o.kind = "panic")
            ELSE /\ thr' = EnterDecrypt(t, "clx", ClxBytes(doc))
                 /\ crashed' = crashed
       ELSE LET p == UnencryptedClx(doc)
            IN  /\ thr' = EnterPieces(t, p, FALSE)
                /\ crashed' = (p.out.kind = "panic")
    /\ UNCHANGED <<doc, results, file, reader, reads, input, output>>

\* goroutine t is in a round of the loop of Decrypt, in statement stmt
InRound(t, stmt) ==
    /\ ~crashed
    /\ thr[t].pc = "decrypt"
    /\ thr[t].k < Len(thr[t].data)
    /\ thr[t].stmt = stmt

\* goroutine t has read v
Load(t, v) == [thr EXCEPT ![t].regs = Append(@, v)]

\* goroutine t goes on to the statement stmt
Goto(t, stmt) == [thr EXCEPT ![t].stmt = stmt, ![t].regs = <<>>]

\* rc4.i++: the read of rc4.i, then the write
GoIncI(t) ==
    /\ InRound(t, "i++")
    /\ IF Len(thr[t].regs) = 0
       THEN /\ thr' = Load(t, doc.decryptor.i)
            /\ doc' = doc
       ELSE /\ doc' = [doc EXCEPT !.decryptor.i = (thr[t].regs[1] + 1) % 256]
            /\ thr' = Goto(t, "j+=")
    /\ UNCHANGED <<results, crashed, file, reader, reads, input, output>>

\* rc4.j += rc4.s[rc4.i]: the reads of rc4.i, rc4.s[i] and rc4.j, then the
\* write of rc4.j
GoAddJ(t) ==
    /\ InRound(t, "j+=")
    /\ LET c == doc.decryptor
           r == thr[t].regs
       IN  IF Len(r) = 0 THEN thr' = Load(t, c.i) /\ doc' = doc
           ELSE IF Len(r) = 1 THEN thr' = Load(t, c.s[r[1] + 1]) /\ doc' = doc
           ELSE IF Len(r) = 2 THEN thr' = Load(t, c.j) /\ doc' = doc
           ELSE /\ doc' = [doc EXCEPT !.decryptor.j = (r[3] + r[2]) % 256]
                /\ thr' = Goto(t, "swap")
    /\ UNCHANGED <<results, crashed, file, reader, reads, input, output>>

\* rc4.s[rc4.i], rc4.s[rc4.j] = rc4.s[rc4.j], rc4.s[rc4.i]: the index
\* operands on the left (rc4.i, rc4.j) and the values on the right (rc4.j,
\* rc4.s[j], rc4.i, rc4.s[i]) are read in that order, then the two entries
\* are written from left to right
GoSwap(t) ==
    /\ InRound(t, "swap")
    /\ LET c == doc.decryptor
           r == thr[t].regs
       IN  IF Len(r) = 0 THEN thr' = Load(t, c.i) /\ doc' = doc
           ELSE IF Len(r) = 1 THEN thr' = Load(t, c.j) /\ doc' = doc
           ELSE IF Len(r) = 2 THEN thr' = Load(t, c.j) /\ doc' = doc
           ELSE IF Len(r) = 3 THEN thr' = Load(t, c.s[r[3] + 1]) /\ doc' = doc
           ELSE IF Len(r) = 4 THEN thr' = Load(t, c.i) /\ doc' = doc
           ELSE IF Len(r) = 5 THEN thr' = Load(t, c.s[r[5] + 1]) /\ doc' = doc
           ELSE IF Len(r) = 6
           THEN /\ doc' = [doc EXCEPT !.decryptor.s[r[1] + 1] = r[4]]
                /\ thr' = Load(t, r[6])
           ELSE /\ doc' = [doc EXCEPT !.decryptor.s[r[2] + 1] = r[6]]
                /\ thr' = Goto(t, "output")
    /\ UNCHANGED <<results, crashed, file, reader, reads, input, output>>

\* output[k] = data[k] ^ rc4.s[rc4.s[rc4.i]+rc4.s[rc4.j]]: the reads of
\* rc4.i, rc4.s[i], rc4.j, rc4.s[j] and of the entry at their sum (a byte),
\* with which output[k] is written; then k++
GoOutput(t) ==
    /\ InRound(t, "output")
    /\ LET c == doc.decryptor
           r == thr[t].regs
       IN  IF Len(r) = 0 THEN thr' = Load(t, c.i)
           ELSE IF Len(r) = 1 THEN thr' = Load(t, c.s[r[1] + 1])
           ELSE IF Len(r) = 2 THEN thr' = Load(t, c.j)
           ELSE IF Len(r) = 3 THEN thr' = Load(t, c.s[r[3] + 1])
           ELSE thr' = [thr EXCEPT
                           ![t].output = Append(@, Xor8(thr[t].data[thr[t].k + 1],
                                                        c.s[((r[2] + r[4]) % 256) + 1])),
                           ![t].k = @ + 1, ![t].stmt = "i++", ![t].regs = <<>>]
    /\ UNCHANGED <<doc, results, crashed, file, reader, reads, input, output>>

\* Decrypt returns output to goroutine t, which goes on behind the call: in
\* extractEncryptedText up to the loop over the pieces, or in the round of
\* that loop up to the head of the next round
GoDecrypted(t) ==
    /\ ~crashed
    /\ thr[t].pc = "decrypt"
    /\ thr[t].k = Len(thr[t].data)
    /\ LET dr == [c |-> doc.decryptor, out |-> thr[t].output]
       IN  IF thr[t].at = "clx"
           THEN thr' = EnterPieces(t, EncryptedClxWith(doc, dr), TRUE)
           ELSE LET s == PieceStepWith(thr[t].plcPcd,
                                       DocReadStream(doc, "WordDocument").data,
                                       thr[t].i, thr[t].text, doc.decryptor, dr)
                IN  thr' = [thr EXCEPT ![t].pc = "pieces", ![t].i = @ + 1,
                                       ![t].text = s.text]
    /\ UNCHANGED <<doc, results, crashed, file, reader, reads, input, output>>

\* goroutine t, at the head of the loop over the pieces, leaves the loop and
\* returns, or runs the round up to its call of Decrypt, or to its end when
\* the round makes none
GoPiece(t) ==
    /\ ~crashed
    /\ thr[t].pc = "pieces"
    /\ LET ws == DocReadStream(doc, "WordDocument").data
       IN  IF thr[t].i > Count(thr[t].plcPcd)
           THEN /\ thr' = Finish(t, OkOut(thr[t].text, doc.decryptor))
                /\ crashed' = crashed
           ELSE IF PieceDecrypts(thr[t].plcPcd, ws, thr[t].enc, thr[t].i)
           THEN /\ thr' = EnterDecrypt(t, "piece", PieceBytes(thr[t].plcPcd, ws, thr[t].i))
                /\ crashed' = crashed
           ELSE LET s == PieceStep(thr[t].plcPcd, ws, thr[t].enc, thr[t].i, thr[t].text,
                                   doc.decryptor)
                IN  /\ crashed' = (s.kind = "panic")
                    /\ thr' = IF s.kind = "next"
                              THEN [thr EXCEPT ![t].i = @ + 1, ![t].text = s.text]
                              ELSE Finish(t, s)
    /\ UNCHANGED <<doc, results, file, reader, reads, input, output>>

NextConc ==
    \/ \E t \in Goroutines : GoText(t)
    \/ \E t \in Goroutines : GoIncI(t)
    \/ \E t \in Goroutines : GoAddJ(t)
    \/ \E t \in Goroutines : GoSwap(t)
    \/ \E t \in Goroutines : GoOutput(t)
    \/ \E t \in Goroutines : GoDecrypted(t)
    \/ \E t \in Goroutines : GoPiece(t)

SpecConc == InitConc /\ [][NextConc]_vars

\* C3 (as claimed): a Document is not written between its construction and
\* Close (no step of a Text() call changes a field of it, the cipher state
\* included), and under every interleaving each call returns what it
\* returns when it runs alone.
C3_DocumentImmutable ==
    /\ [][doc' = doc]_vars
    /\ [](\A t \in Goroutines : thr[t].pc = "done" => thr[t].out = thr[t].alone)

(***************************************************************************)
(* metadata: the property-set reader (metadata.MetadataExtractor).  An     *)
(* int64 is the sequence of its 8 bytes, low byte first (two's             *)
(* complement); an int32 is an integer.  A property value, the interface{} *)
(* of the source, is a record [t, b, n]: t is the Go type it holds         *)
(* ("string", "int32", "int64", "time", "bytes", "bool"), b its bytes (the *)
(* string, the int64, the seconds of the time.Time, the []byte) and n its  *)
(* number (the int32, or 1 and 0 for true and false).                      *)
(***************************************************************************)

PropertyTypeString == 8
PropertyTypeInt32 == 3
PropertyTypeBoolean == 11
PropertyTypeUInt32 == 19
PropertyTypeInt64 == 20
PropertyTypeFileTime == 64
PropertyTypeBlob == 65
PropertyTypeClipboardData == 71
PropertyTypeStringA == 30
PropertyTypeStringW == 31

Zero64 == <<0, 0, 0, 0, 0, 0, 0, 0>>

\* x - y on int64, from byte k on with a borrow: Go's subtraction wraps
RECURSIVE SubFrom(_, _, _, _)
SubFrom(x, y, k, borrow) ==
    IF k > 8 THEN <<>>
    ELSE <<(256 + x[k] - y[k] - borrow) % 256>>
            \o SubFrom(x, y, k + 1, IF x[k] - y[k] - borrow < 0 THEN 1 ELSE 0)

Sub64(x, y) == SubFrom(x, y, 1, 0)
Neg64(x) == Sub64(Zero64, x)
IsNeg64(x) == x[8] >= 128

\* bit k (0 is the lowest) of the 64 bits of x
Bit64(x, k) == (x[(k \div 8) + 1] \div (2 ^ (k % 8))) % 2

\* the bits, highest first, of the quotient of the unsigned x by d for the
\* bits hi down to lo of x, and the remainder after them; rem is the
\* remainder of the bits above hi (d < 2^30).  The range is halved to keep
\* the evaluation shallow.
RECURSIVE QuotientBits(_, _, _, _, _)
QuotientBits(x, d, hi, lo, rem) ==
    IF hi = lo
    THEN LET r == (2 * rem) + Bit64(x, hi)
         IN  IF r >= d THEN [bits |-> <<1>>, rem |-> r - d] ELSE [bits |-> <<0>>, rem |-> r]
    ELSE LET mid == (hi + lo + 1) \div 2
             Lower(a) ==
                 LET Join(b) == [bits |-> a.bits \o b.bits, rem |-> b.rem]
                 IN  Apply(Join, QuotientBits(x, d, mid - 1, lo, a.rem))
         IN  Apply(Lower, QuotientBits(x, d, hi, mid, rem))

\* the 8 bytes of 64 bits given highest first
BytesOfBits(bits) ==
    [j \in 1..8 |->
        (bits[64 - (8 * (j - 1))]) + (2 * bits[63 - (8 * (j - 1))])
        + (4 * bits[62 - (8 * (j - 1))]) + (8 * bits[61 - (8 * (j - 1))])
        + (16 * bits[60 - (8 * (j - 1))]) + (32 * bits[59 - (8 * (j - 1))])
        + (64 * bits[58 - (8 * (j - 1))]) + (128 * bits[57 - (8 * (j - 1))])]

UDiv64(x, d) == BytesOfBits(QuotientBits(x, d, 63, 0, 0).bits)

\* x / d on int64 for a constant d > 0: Go's division truncates toward zero
Div64(x, d) == IF IsNeg64(x) THEN Neg64(UDiv64(Neg64(x), d)) ELSE UDiv64(x, d)

\* int32(u) of a uint32
ToInt32(u) == IF u[1] >= 32768 THEN ((u[1] - 65536) * 65536) + u[2] ELSE Num(u)

\* 116444736000000000, the FILETIME of 1970-01-01
fileTimeEpoch == <<0, 128, 62, 213, 222, 177, 157, 1>>

\* time.Time{} and time.Unix(sec, 0): the seconds since 1970 and the location
ZeroTime == [unix |-> <<0, 9, 110, 136, 241, 255, 255, 255>>, loc |-> "UTC"]
TimeUnix(sec) == [unix |-> sec, loc |-> "Local"]

NilValue == [t |-> "nil", b |-> <<>>, n |-> 0]
StringValue(s) == [t |-> "string", b |-> s, n |-> 0]
Int32Value(n) == [t |-> "int32", b |-> <<>>, n |-> n]
Int64Value(x) == [t |-> "int64", b |-> x, n |-> 0]
TimeValue(tm) == [t |-> "time", b |-> tm.unix, n |-> 0]
BytesValue(b) == [t |-> "bytes", b |-> b, n |-> 0]
BoolValue(v) == [t |-> "bool", b |-> <<>>, n |-> IF v THEN 1 ELSE 0]

RECURSIVE StripNuls(_)
StripNuls(s) ==
    IF s # <<>> /\ s[Len(s)] = 0 THEN StripNuls(SubSeq(s, 1, Len(s) - 1)) ELSE s

\* MetadataExtractor.readPropertyValue on a reader over data: the type, two
\* bytes of padding, and the value read by type
readPropertyValue(data) ==
    LET propType == LE16(data, 0)
        have     == IF Len(data) > 4 THEN Len(data) - 4 ELSE 0
        Failed(e) == [err |-> e, value |-> NilValue]
        Got(v)    == [err |-> "", value |-> v]
        length   == LE32(data, 4)
        have2    == Len(data) - 8
        taken    == IF Fits(length) /\ Num(length) < have2 THEN Num(length) ELSE have2
    IN  IF Len(data) < 2 THEN Failed("failed to read property type: " \o ReadFullErr(Len(data), 2))
        ELSE IF propType \in {PropertyTypeInt32, PropertyTypeUInt32}
        THEN IF ReadFullErr(have, 4) # "" THEN Failed(ReadFullErr(have, 4))
             ELSE Got(Int32Value(ToInt32(LE32(data, 4))))
        ELSE IF propType = PropertyTypeInt64
        THEN IF ReadFullErr(have, 8) # "" THEN Failed(ReadFullErr(have, 8))
             ELSE Got(Int64Value(Slice(data, 4, 12)))
        ELSE IF propType = PropertyTypeFileTime
        THEN IF ReadFullErr(have, 8) # "" THEN Failed(ReadFullErr(have, 8))
             ELSE Got(TimeValue(TimeUnix(Div64(Sub64(Slice(data, 4, 12), fileTimeEpoch),
                                               10000000))))
        ELSE IF propType \in {PropertyTypeString, PropertyTypeStringA, PropertyTypeStringW}
        THEN IF ReadFullErr(have, 4) # "" THEN Failed(ReadFullErr(have, 4))
             ELSE IF length = U(0) THEN Got(StringValue(<<>>))
             ELSE IF propType = PropertyTypeStringW
             THEN IF ~Fits(length) \/ 2 * (Num(length) \div 2) > have2
                  THEN Failed(IF have2 = 0 THEN "EOF" ELSE "unexpected EOF")
                  ELSE Got(StringValue(TrimSpace(Utf8(Utf16Decode(
                              [k \in 1..(Num(length) \div 2) |->
                                  LE16(data, 8 + (2 * (k - 1)))])))))
             ELSE IF ReaderReadErr(have2) # "" THEN Failed(ReaderReadErr(have2))
                  ELSE Got(StringValue(TrimSpace(StripNuls(Slice(data, 8, 8 + taken)))))
        ELSE IF propType \in {PropertyTypeBlob, PropertyTypeClipboardData}
        THEN IF ReadFullErr(have, 4) # "" THEN Failed(ReadFullErr(have, 4))
             ELSE IF ReaderReadErr(have2) # "" THEN Failed(ReaderReadErr(have2))
             ELSE Got(BytesValue(Slice(data, 8, 8 + taken)
                                    \o Repeat(0, Num(length) - taken)))
        ELSE IF propType = PropertyTypeBoolean
        THEN IF ReadFullErr(have, 2) # "" THEN Failed(ReadFullErr(have, 2))
             ELSE Got(BoolValue(LE16(data, 4) # 0))
        ELSE Failed("unsupported property type")

\* properties[id] = v of a map[uint32]interface{}: a function on uint32s
PutProperty(properties, id, v) ==
    [x \in (DOMAIN properties) \cup {id} |-> IF x = id THEN v ELSE properties[x]]

NoProperties == <<>>

\* the (property id, offset) pairs of a property set that has n of them
PropertyTable(data, n) ==
    [k \in 1..n |-> [id |-> LE32(data, 8 * k), offset |-> LE32(data, (8 * k) + 4)]]

\* propOffsets[id]: the offset of the last pair with that id
RECURSIVE LastOffset(_, _, _)
LastOffset(table, id, k) ==
    IF table[k].id = id THEN table[k].offset ELSE LastOffset(table, id, k - 1)

\* MetadataExtractor.parsePropertySetData: the error, and the map after it
parsePropertySetData(data, properties) ==
    LET count == LE32(data, 4)
        Failed(e) == [err |-> e, properties |-> properties]
    IN  IF Len(data) < 8 THEN Failed("property set data too short")
        ELSE IF ~Fits(count) \/ Num(count) > (Len(data) - 8) \div 8
        THEN Failed("failed to read property ID or offset")
        ELSE
        LET table == PropertyTable(data, Num(count))
            ids == { table[k].id : k \in 1..Len(table) }
            OffsetOf(id) == LastOffset(table, id, Len(table))
            Inside(id) == Fits(OffsetOf(id)) /\ Num(OffsetOf(id)) < Len(data)
            ValueOf(id) == readPropertyValue(Slice(data, Num(OffsetOf(id)), Len(data)))
            read == { id \in ids : Inside(id) /\ ValueOf(id).err = "" }
        IN  [err |-> "",
             properties |-> [x \in (DOMAIN properties) \cup read |->
                                IF x \in read THEN ValueOf(x).value ELSE properties[x]]]

\* the loop of parsePropertySetFromOffset over the property sets i .. n-1 of
\* the container at offset: their (FMTID, offset) pairs follow its 28-byte header
RECURSIVE PropertySetsFrom(_, _, _, _, _)
PropertySetsFrom(data, offset, i, n, properties) ==
    LET at == offset + 28 + (20 * i)
        absoluteOffset == offset + Num(LE32(data, at + 16))
        Then(r) ==
            IF r.err # ""
            THEN [err |-> "failed to parse property set: " \o r.err,
                  properties |-> NoProperties]
            ELSE PropertySetsFrom(data, offset, i + 1, n, r.properties)
    IN  IF Fits(n) /\ i >= Num(n) THEN [err |-> "", properties |-> properties]
        ELSE IF ReadFullErr(Len(data) - Min(at, Len(data)), 20) # ""
        THEN [err |-> "failed to read property set info", properties |-> NoProperties]
        ELSE IF ~Fits(LE32(data, at + 16)) \/ absoluteOffset >= Len(data)
        THEN PropertySetsFrom(data, offset, i + 1, n, properties)
        ELSE Apply(Then, parsePropertySetData(Slice(data, absoluteOffset, Len(data)),
                                              properties))

\* MetadataExtractor.parsePropertySetFromOffset
parsePropertySetFromOffset(data, offset) ==
    IF offset + 48 > Len(data)
    THEN [err |-> "property set data too short for offset", properties |-> NoProperties]
    ELSE IF LE16(data, offset) # 65534
    THEN [err |-> "invalid byte order in property set", properties |-> NoProperties]
    ELSE PropertySetsFrom(data, offset, 0, LE32(data, offset + 24), NoProperties)

\* strings.Contains(s, sub) and strings.Index(s, sub) on byte strings
Contains(s, sub) == \E k \in 0..(Len(s) - Len(sub)) : SubSeq(s, k + 1, k + Len(sub)) = sub

RECURSIVE IndexFrom(_, _, _)
IndexFrom(s, sub, k) ==
    IF k + Len(sub) > Len(s) THEN -1
    ELSE IF SubSeq(s, k + 1, k + Len(sub)) = sub THEN k
    ELSE IndexFrom(s, sub, k + 1)

Index(s, sub) == IndexFrom(s, sub, 0)

\* the literal strings of the source, as bytes
StrPK == <<80, 75, 3, 4>>
StrMicrosoft == <<77, 105, 99, 114, 111, 115, 111, 102, 116>>
StrXml == <<60, 63, 120, 109, 108>>
StrWord == <<77, 105, 99, 114, 111, 115, 111, 102, 116, 32, 79, 102, 102, 105, 99, 101, 32, 87, 111, 114, 100>>
StrMsword == <<97, 112, 112, 108, 105, 99, 97, 116, 105, 111, 110, 47, 109, 115, 119, 111, 114, 100>>
StrTitle == <<84, 104, 101, 32, 84, 104, 105, 114, 100, 32, 84, 105, 116, 108, 101>>
StrSubject == <<84, 97, 108, 101, 110, 116, 83, 111, 114, 116>>
StrKeywords == <<116, 97, 103, 49>>
StrComments == <<89, 97, 121, 121>>
StrManager == <<87, 104, 111, 32, 75, 110, 111, 119, 115>>
StrCategory == <<100, 117, 109, 98>>
StrStatus == <<114, 101, 97, 100, 121>>
StrCompany == <<84, 97, 108, 101, 110, 116, 70, 111, 114, 109, 117, 108, 97>>
StrGithub == <<103, 105, 116, 104, 117, 98, 46, 99, 111, 109, 47, 84, 97, 108, 101, 110, 116, 70, 111, 114, 109, 117, 108, 97>>

\* the property ids the extractor looks at
PIDTitle == 2
PIDSubject == 3
PIDAuthor == 4
PIDKeywords == 5
PIDComments == 6
PIDTemplate == 7
PIDLastAuthor == 8
PIDRevNumber == 9
PIDEditTime == 10
PIDLastPrinted == 11
PIDCreateTime == 12
PIDLastSaveTime == 13
PIDPageCount == 14
PIDWordCount == 15
PIDCharCount == 16
PIDThumbnail == 17
PIDAppName == 18
PIDSecurity == 19
PIDCategory == 2
PIDByteCount == 4
PIDLineCount == 5
PIDParaCount == 6
PIDManager == 14
PIDCompany == 15
PIDCharCountWithSpaces == 17
PIDHyperLinkBase == 21
PIDContentType == 26
PIDContentStatus == 27
PIDLanguage == 28

\* the names of the two summary streams; each stands for the name that
\* starts with the byte 0x05
SummaryInformation == "SummaryInformation"
DocumentSummaryInformation == "DocumentSummaryInformation"

\* me.reader.ReadStream(name) on the streams of the document: a name the
\* file has no stream for is not found
MetaReadStream(streams, name) ==
    IF name \in DOMAIN streams THEN streams[name] ELSE NoStream

\* MetadataExtractor.isSample3DocType
isSample3DocType(data) == Contains(data, StrPK)

\* extractXMLValue(content, tagName), tagName given as bytes
extractXMLValue(content, tagName) ==
    LET startTag == <<60>> \o tagName \o <<62>>
        endTag == <<60, 47>> \o tagName \o <<62>>
        startIdx == Index(content, startTag) + Len(startTag)
        rest == Slice(content, startIdx, Len(content))
    IN  IF Index(content, startTag) = -1 THEN <<>>
        ELSE IF Index(rest, endTag) = -1 THEN <<>>
        ELSE TrimSpace(Slice(rest, 0, Index(rest, endTag)))

\* MetadataExtractor.parseXMLMetadata: the map after it (its error is not used)
parseXMLMetadata(content, properties) ==
    LET title == extractXMLValue(content, <<116, 105, 116, 108, 101>>)
        subject == extractXMLValue(content, <<115, 117, 98, 106, 101, 99, 116>>)
        p1 == IF title # <<>> THEN PutProperty(properties, U(PIDTitle), StringValue(title))
              ELSE properties
    IN  IF subject # <<>> THEN PutProperty(p1, U(PIDSubject), StringValue(subject)) ELSE p1

\* MetadataExtractor.parseEmbeddedMetadata: the map after it
parseEmbeddedMetadata(data, properties) ==
    IF Contains(data, StrXml) \/ Contains(data, <<60, 116, 105, 116, 108, 101, 62>>)
    THEN parseXMLMetadata(data, properties)
    ELSE properties

\* MetadataExtractor.parseMetadataFromDocument (extractTitleFromContent finds
\* nothing; extractOtherMetadataFromContent looks for "Microsoft")
parseMetadataFromDocument(streams, properties) ==
    LET wordDocData == MetaReadStream(streams, "WordDocument")
    IN  IF ~wordDocData.ok THEN [err |-> "ole2: stream not found", properties |-> properties]
        ELSE IF Contains(wordDocData.data, StrMicrosoft)
        THEN [err |-> "",
              properties |-> PutProperty(properties, U(PIDAppName), StringValue(StrWord))]
        ELSE [err |-> "no metadata found in document content", properties |-> properties]

\* MetadataExtractor.parseAlternativeFormat
parseAlternativeFormat(streams, data) ==
    IF ~isSample3DocType(data) THEN [err |-> "", properties |-> NoProperties]
    ELSE IF parseMetadataFromDocument(streams, NoProperties).err = ""
    THEN [err |-> "", properties |-> parseMetadataFromDocument(streams, NoProperties).properties]
    ELSE [err |-> "", properties |-> parseEmbeddedMetadata(data, NoProperties)]

\* the first offset 0, 4, 8, ... up to maxSearchOffset at which the data has
\* the byte order mark 0xFFFE, or -1
RECURSIVE HeaderOffset(_, _, _)
HeaderOffset(data, offset, maxSearchOffset) ==
    IF offset > maxSearchOffset THEN -1
    ELSE IF LE16(data, offset) = 65534 THEN offset
    ELSE HeaderOffset(data, offset + 4, maxSearchOffset)

\* MetadataExtractor.parsePropertySet
parsePropertySet(streams, data) ==
    IF Len(data) < 48 THEN [err |-> "property set data too short", properties |-> NoProperties]
    ELSE LET found == HeaderOffset(data, 0, Min(Len(data) - 48, 1024))
         IN  IF found >= 0 THEN parsePropertySetFromOffset(data, found)
             ELSE parseAlternativeFormat(streams, data)

\* the DocumentMetadata ExtractMetadata starts from: the fields the extractor
\* ever sets, at their zero values (strings and []byte as bytes, int64 as 8
\* bytes)
NewDocumentMetadata ==
    [Title |-> <<>>, Subject |-> <<>>, Author |-> <<>>, Keywords |-> <<>>,
     Comments |-> <<>>, Template |-> <<>>, LastAuthor |-> <<>>, RevisionNumber |-> <<>>,
     ApplicationName |-> <<>>, Created |-> ZeroTime, LastSaved |-> ZeroTime,
     LastPrinted |-> ZeroTime, TotalEditTime |-> Zero64, PageCount |-> 0, WordCount |-> 0,
     CharCount |-> 0, CharCountWithSpaces |-> 0, Security |-> 0, Category |-> <<>>,
     ByteCount |-> Zero64, LineCount |-> 0, ParagraphCount |-> 0, Company |-> <<>>,
     Manager |-> <<>>, Language |-> 0, ContentType |-> <<>>, ContentStatus |-> <<>>,
     HyperLinkBase |-> <<>>, ThumbnailData |-> <<>>]

\* the cases of the two switches: property id, field, and the Go type the
\* value must have
SummaryCases ==
    << <<PIDTitle, "Title", "string">>, <<PIDSubject, "Subject", "string">>,
       <<PIDAuthor, "Author", "string">>, <<PIDKeywords, "Keywords", "string">>,
       <<PIDComments, "Comments", "string">>, <<PIDTemplate, "Template", "string">>,
       <<PIDLastAuthor, "LastAuthor", "string">>,
       <<PIDRevNumber, "RevisionNumber", "string">>,
       <<PIDAppName, "ApplicationName", "string">>, <<PIDCreateTime, "Created", "time">>,
       <<PIDLastSaveTime, "LastSaved", "time">>, <<PIDLastPrinted, "LastPrinted", "time">>,
       <<PIDEditTime, "TotalEditTime", "int64">>, <<PIDPageCount, "PageCount", "int32">>,
       <<PIDWordCount, "WordCount", "int32">>, <<PIDCharCount, "CharCount", "int32">>,
       <<PIDSecurity, "Security", "int32">>, <<PIDThumbnail, "ThumbnailData", "bytes">> >>

DocumentSummaryCases ==
    << <<PIDCategory, "Category", "string">>, <<PIDCompany, "Company", "string">>,
       <<PIDManager, "Manager", "string">>, <<PIDByteCount, "ByteCount", "int64">>,
       <<PIDLineCount, "LineCount", "int32">>, <<PIDParaCount, "ParagraphCount", "int32">>,
       <<PIDCharCountWithSpaces, "CharCountWithSpaces", "int32">>,
       <<PIDLanguage, "Language", "int32">>, <<PIDContentType, "ContentType", "string">>,
       <<PIDContentStatus, "ContentStatus", "string">>,
       <<PIDHyperLinkBase, "HyperLinkBase", "string">> >>

\* what a case stores in its field for the value v
FieldValue(field, v) ==
    IF v.t = "int32" THEN v.n
    ELSE IF v.t = "time" THEN TimeUnix(v.b)
    ELSE IF field = "TotalEditTime" THEN Div64(v.b, 10000000 * 60)
    ELSE v.b

\* the loop over the properties with the switch: the cases k .. of cases
RECURSIVE AssignProperties(_, _, _, _)
AssignProperties(metadata, properties, cases, k) ==
    IF k > Len(cases) THEN metadata
    ELSE LET id == U(cases[k][1])
             field == cases[k][2]
         IN  IF id \in DOMAIN properties /\ properties[id].t = cases[k][3]
             THEN AssignProperties([metadata EXCEPT ![field] = FieldValue(field, properties[id])],
                                   properties, cases, k + 1)
             ELSE AssignProperties(metadata, properties, cases, k + 1)

\* MetadataExtractor.extractSummaryInformation: the error, and the metadata
\* after it
extractSummaryInformation(streams, metadata) ==
    LET streamData == MetaReadStream(streams, SummaryInformation)
        WithProperties(p) ==
            IF p.err # ""
            THEN [err |-> "failed to parse SummaryInformation: " \o p.err,
                  metadata |-> metadata]
            ELSE [err |-> "",
                  metadata |-> AssignProperties(metadata, p.properties, SummaryCases, 1)]
    IN  IF ~streamData.ok
        THEN [err |-> "failed to read SummaryInformation stream", metadata |-> metadata]
        ELSE Apply(WithProperties, parsePropertySet(streams, streamData.data))

\* the strings the fallbacks look for, each with the field it is stored in
Utf16MetadataFields ==
    << <<StrTitle, "Title">>, <<StrSubject, "Subject">>, <<StrKeywords, "Keywords">> >>
AsciiMetadataFields ==
    << <<StrComments, "Comments">>, <<StrManager, "Manager">>, <<StrCategory, "Category">>,
       <<StrStatus, "ContentStatus">> >>
AllMetadataFields ==
    Utf16MetadataFields \o AsciiMetadataFields \o << <<StrCompany, "Company">> >>

\* MetadataExtractor.findUTF16StringInData, for a searchStr of ASCII
\* characters: each one followed by a zero byte
Utf16Pattern(searchStr) ==
    [k \in 1..(2 * Len(searchStr)) |-> IF k % 2 = 1 THEN searchStr[(k + 1) \div 2] ELSE 0]

findUTF16StringInData(data, searchStr) == Contains(data, Utf16Pattern(searchStr))

\* fmt.Sprintf("%x", data), as the values of its hexadecimal digits
HexDigits(data) ==
    [k \in 1..(2 * Len(data)) |->
        IF k % 2 = 1 THEN data[(k + 1) \div 2] \div 16 ELSE data[k \div 2] % 16]

\* strings.ToLower(content), as far as a search for ASCII letters can tell:
\* the letters A..Z become a..z, the Kelvin sign U+212A (E2 84 AA) becomes k
\* and U+0130 (C4 B0) becomes i; every other byte outside ASCII stays where
\* it is (ToLower turns it into bytes outside ASCII again)
HasAt(s, k, sub) ==
    k >= 1 /\ k + Len(sub) - 1 <= Len(s) /\ SubSeq(s, k, k + Len(sub) - 1) = sub

LowerAt(s, k) ==
    IF s[k] >= 65 /\ s[k] <= 90 THEN <<s[k] + 32>>
    ELSE IF HasAt(s, k, <<226, 132, 170>>) THEN <<107>>
    ELSE IF HasAt(s, k - 1, <<226, 132, 170>>) \/ HasAt(s, k - 2, <<226, 132, 170>>) THEN <<>>
    ELSE IF HasAt(s, k, <<196, 176>>) THEN <<105>>
    ELSE IF HasAt(s, k - 1, <<196, 176>>) THEN <<>>
    ELSE <<s[k]>>

RECURSIVE LowerFrom(_, _, _)
LowerFrom(s, lo, hi) ==
    IF lo >= hi THEN <<>>
    ELSE IF hi = lo + 1 THEN LowerAt(s, hi)
    ELSE LowerFrom(s, lo, (lo + hi) \div 2) \o LowerFrom(s, (lo + hi) \div 2, hi)

ToLower(s) == LowerFrom(s, 0, Len(s))

\* the tests one stream is put to for one value: how is "ascii"
\* (strings.Contains), "utf16" (findUTF16StringInData), "embedded" (both, as
\* extractFromEmbeddedData does) or "comprehensive" (the four tests of
\* comprehensiveMetadataSearch)
Matches(how, data, value) ==
    \/ how \in {"ascii", "embedded", "comprehensive"} /\ Contains(data, value)
    \/ how \in {"utf16", "embedded", "comprehensive"} /\ findUTF16StringInData(data, value)
    \/ how = "comprehensive" /\ Contains(ToLower(data), ToLower(value))
    \/ how = "comprehensive" /\ Contains(HexDigits(data), HexDigits(value))

\* the streams ListStreams names and ReadStream reads
ReadableStreams(streams) == { n \in DOMAIN streams : streams[n].ok }

\* a loop over streams and fields that stores a value in its field when the
\* field is empty and a stream passes the test: the fields k .. of fields;
\* found says whether a field was stored
RECURSIVE SearchFields(_, _, _, _, _, _)
SearchFields(metadata, found, streams, names, fields, how) ==
    IF fields = <<>> THEN [metadata |-> metadata, found |-> found]
    ELSE LET value == fields[1][1]
             field == fields[1][2]
         IN  IF metadata[field] = <<>>
                  /\ \E n \in names : Matches(how, streams[n].data, value)
             THEN SearchFields([metadata EXCEPT ![field] = value], TRUE, streams, names,
                               Tail(fields), how)
             ELSE SearchFields(metadata, found, streams, names, Tail(fields), how)

\* MetadataExtractor.searchMetadataInAllStreams (ReadStream returns no data
\* with an error, so a stream that fails to read adds nothing)
searchMetadataInAllStreams(streams, metadata, fields) ==
    SearchFields(metadata, FALSE, streams, ReadableStreams(streams), fields, "ascii").metadata

\* MetadataExtractor.extractFromCorruptedDocumentSummary
extractFromCorruptedDocumentSummary(streams, metadata, fields) ==
    SearchFields(metadata, FALSE, streams,
                 ReadableStreams(streams) \cap {DocumentSummaryInformation}, fields,
                 "ascii").metadata

\* MetadataExtractor.extractCompanyFromStreams
extractCompanyFromStreams(streams, metadata) ==
    IF MetaReadStream(streams, "Data").ok
          /\ findUTF16StringInData(MetaReadStream(streams, "Data").data, StrCompany)
    THEN [err |-> "", metadata |-> [metadata EXCEPT !.Company = StrCompany]]
    ELSE IF MetaReadStream(streams, "WordDocument").ok
          /\ Contains(MetaReadStream(streams, "WordDocument").data, StrCompany)
    THEN [err |-> "", metadata |-> [metadata EXCEPT !.Company = StrCompany]]
    ELSE [err |-> "company information not found", metadata |-> metadata]

\* the loops of extractFromTableStream over the table stream: a value that
\* is found is stored whatever the field holds
RECURSIVE TableFields(_, _, _, _, _)
TableFields(metadata, found, tableData, fields, how) ==
    IF fields = <<>> THEN [metadata |-> metadata, found |-> found]
    ELSE IF Matches(how, tableData, fields[1][1])
    THEN TableFields([metadata EXCEPT ![fields[1][2]] = fields[1][1]], TRUE, tableData,
                     Tail(fields), how)
    ELSE TableFields(metadata, found, tableData, Tail(fields), how)

\* MetadataExtractor.extractFromTableStream
extractFromTableStream(streams, metadata) ==
    LET tableData == MetaReadStream(streams, "1Table")
        WithCompany(r) ==
            IF r.metadata.Company = <<>>
            THEN [err |-> "", metadata |-> extractCompanyFromStreams(streams, r.metadata).metadata]
            ELSE [err |-> "", metadata |-> r.metadata]
        Marked(m) ==
            [metadata |-> [m EXCEPT !.ApplicationName = StrWord, !.ContentType = StrMsword],
             found |-> TRUE]
        Searched(r) ==
            IF ~r.found \/ r.metadata.Comments = <<>> \/ r.metadata.Manager = <<>>
                  \/ r.metadata.Category = <<>> \/ r.metadata.ContentStatus = <<>>
            THEN Marked(extractFromCorruptedDocumentSummary(streams,
                            searchMetadataInAllStreams(streams, r.metadata, AsciiMetadataFields),
                            AsciiMetadataFields))
            ELSE Marked(r.metadata)
        Ascii(r) == TableFields(r.metadata, r.found, tableData.data, AsciiMetadataFields, "ascii")
    IN  IF ~tableData.ok THEN [err |-> "ole2: stream not found", metadata |-> metadata]
        ELSE Apply(WithCompany, Apply(Searched, Apply(Ascii,
                 TableFields(metadata, FALSE, tableData.data, Utf16MetadataFields, "utf16"))))

\* MetadataExtractor.extractFromDocumentContent
extractFromDocumentContent(streams, metadata) ==
    LET wordDocData == MetaReadStream(streams, "WordDocument")
    IN  IF ~wordDocData.ok THEN [err |-> "ole2: stream not found", metadata |-> metadata]
        ELSE IF Contains(wordDocData.data, StrCompany)
                   \/ (Index(wordDocData.data, StrGithub) # -1 /\ metadata.Company = <<>>)
        THEN [err |-> "",
              metadata |-> [metadata EXCEPT !.Company = StrCompany,
                                            !.ApplicationName = StrWord,
                                            !.ContentType = StrMsword]]
        ELSE [err |-> "no metadata found in document content", metadata |-> metadata]

\* MetadataExtractor.extractFromEmbeddedData
extractFromEmbeddedData(streams, metadata) ==
    LET Then(r) ==
            IF r.found
            THEN [err |-> "",
                  metadata |-> [r.metadata EXCEPT !.ApplicationName = StrWord,
                                                  !.ContentType = StrMsword]]
            ELSE [err |-> "no metadata found in embedded data", metadata |-> r.metadata]
    IN  Apply(Then, SearchFields(metadata, FALSE, streams, ReadableStreams(streams),
                                 AllMetadataFields, "embedded"))

\* MetadataExtractor.comprehensiveMetadataSearch
comprehensiveMetadataSearch(streams, metadata) ==
    LET Then(r) ==
            IF ~r.found THEN r
            ELSE [found |-> TRUE,
                  metadata |->
                     [r.metadata EXCEPT
                        !.ApplicationName = IF @ = <<>> THEN StrWord ELSE @,
                        !.ContentType = IF @ = <<>> THEN StrMsword ELSE @]]
    IN  Apply(Then, SearchFields(metadata, FALSE, streams, ReadableStreams(streams),
                                 AllMetadataFields, "comprehensive"))

\* MetadataExtractor.extractBasicProperties: the metadata after it (it
\* returns no error)
extractBasicProperties(streams, metadata) ==
    LET summaryData == MetaReadStream(streams, SummaryInformation)
        Then(r) ==
            IF r.found THEN r.metadata
            ELSE IF summaryData.ok /\ Len(summaryData.data) > 100
                      /\ isSample3DocType(summaryData.data)
            THEN IF r.metadata.Company # <<>>
                 THEN [r.metadata EXCEPT !.ApplicationName = StrWord,
                                         !.ContentType = StrMsword]
                 ELSE [r.metadata EXCEPT
                         !.ApplicationName = IF @ = <<>> THEN StrWord ELSE @,
                         !.ContentType = IF @ = <<>> THEN StrMsword ELSE @]
            ELSE r.metadata
    IN  Apply(Then, comprehensiveMetadataSearch(streams, metadata))

\* MetadataExtractor.extractDocumentSummaryAlternative: the metadata after
\* it (the last approach returns no error)
extractDocumentSummaryAlternative(streams, metadata) ==
    LET Third(r) ==
            IF r.err = "" THEN r.metadata ELSE extractBasicProperties(streams, r.metadata)
        Second(r) ==
            IF r.err = "" THEN r.metadata
            ELSE Apply(Third, extractFromEmbeddedData(streams, r.metadata))
        First(r) ==
            IF r.err = "" THEN r.metadata
            ELSE Apply(Second, extractFromDocumentContent(streams, r.metadata))
    IN  Apply(First, extractFromTableStream(streams, metadata))

\* MetadataExtractor.extractDocumentSummaryInformation: the metadata after it
extractDocumentSummaryInformation(streams, metadata) ==
    LET streamData == MetaReadStream(streams, DocumentSummaryInformation)
        WithProperties(p) ==
            IF p.err # "" THEN extractDocumentSummaryAlternative(streams, metadata)
            ELSE AssignProperties(metadata, p.properties, DocumentSummaryCases, 1)
    IN  IF ~streamData.ok THEN extractDocumentSummaryAlternative(streams, metadata)
        ELSE Apply(WithProperties, parsePropertySet(streams, streamData.data))

\* MetadataExtractor.ExtractMetadata: it returns no error
ExtractMetadata(streams) ==
    LET Then(r) == extractDocumentSummaryInformation(streams, r.metadata)
    IN  Apply(Then, extractSummaryInformation(streams, NewDocumentMetadata))

\* Document.Metadata: ExtractMetadata returns no error, so the "N/A" branch
\* is never taken
Metadata(d) == ExtractMetadata(d.streams)

(***************************************************************************)
(* The parsers, each called once on an input                               *)
(***************************************************************************)

\* the FC words of the parsed descriptors: bit 30 and bit 31 set and clear,
\* even and odd offsets
PcdFcs == { U(0), U(1024), U(1025), <<16384, 1024>>, <<16384, 1025>>, <<16383, 65535>>,
            <<32767, 65535>>, <<32768, 1024>>, <<49152, 1024>>, <<65535, 65535>> }
PcdFlags == { 0, 1, 2, 3, 32772, 65535 }

\* descriptors of 8 bytes, and the same cut to 7 or with a byte more
PcdDatas ==
    LET whole == { PutLE16(fl) \o PutLE32(fc) \o PutLE16(prm) :
                      fl \in PcdFlags, fc \in PcdFcs, prm \in {0, 65535} }
    IN  whole \cup { SubSeq(d, 1, 7) : d \in whole } \cup { d \o <<0>> : d \in whole }
              \cup { <<>> }

\* piece tables: CPs in any order with one or two descriptors, and tables
\* of a length that is not 4 + 12n
PlcDatas ==
    SmallPlcs \cup { SubSeq(p, 1, Len(p) - 1) : p \in SmallPlcs }
              \cup { <<>>, <<0, 0, 0>>, <<1, 0, 0, 0>> }

\* the seven character counts of the FIB the piece table belongs to
CcpSets == { <<0, 0, 0, 0, 0, 0, 0>>, <<2, 0, 0, 0, 0, 0, 0>>, <<1, 1, 0, 0, 0, 0, 1>> }

\* FIBs laid out in the documented parse order: FibBase, csw and 2*csw bytes,
\* cslw and 4*cslw bytes, cbRgFcLcb and 8*cbRgFcLcb bytes, and what follows.
\* The uint32 at offset o of the blob holds o + 1, so that a value tells where
\* it was read.
FibBase(nFib, flags1) ==
    PutLE16(wIdentWord) \o PutLE16(nFib) \o Repeat(0, 6) \o PutLE16(flags1) \o Repeat(0, 20)

BlobOf(cb) == Flatten([k \in 1..(2 * cb) |-> PutLE32(U((4 * (k - 1)) + 1))])

FibBytes(nFib, flags1, csw, cslw, cb, rest) ==
    FibBase(nFib, flags1) \o PutLE16(csw) \o Repeat(0, 2 * csw)
        \o PutLE16(cslw) \o Repeat(0, 4 * cslw) \o PutLE16(cb) \o BlobOf(cb) \o rest

FibVersions == { 193, 217, 257, 268, 274, 104 }
FibCslws == { 19, 21, 22 }
FibCbs == { 0, 1, 33, 34, 93 }

WholeFibs ==
    { FibBytes(v, 0, 14, w, cb, rest) :
         v \in FibVersions, w \in FibCslws, cb \in FibCbs, rest \in { <<>>, <<0, 0>> } }

\* FIBs cut short, and one with another wIdent
CutFibs ==
    { Slice(FibBytes(193, 512, 14, 19, 34, <<>>), 0, k) :
         k \in { 0, 31, 32, 33, 34, 35, 62, 63, 64, 65, 140, 141, 142, 148, 149, 150, 413 } }
    \cup { <<0, 0>> \o Tail(Tail(FibBytes(193, 0, 14, 19, 34, <<>>))) }

FibDatas == WholeFibs \cup CutFibs

\* keys and byte strings for RC4.Decrypt: keys of 1, 5 and 16 bytes, and
\* strings of 0, 1, 5 and 260 bytes (the index i of the cipher wraps at 256)
Rc4Keys == Keys \cup { <<0>>, <<255>> }
Rc4Datas ==
    { <<>>, <<0>>, <<255>>, <<72, 101, 108, 108, 111>>, [k \in 1..260 |-> (7 * k) % 256],
      Repeat(0, 260) }

\* the encoded values of the property sets handed to parsePropertySetData:
\* an I4 7, the LPSTR "Hi", the LPWSTR "Hi", an I2 (a type the reader does
\* not know) and "past", a property whose offset lies beyond the data
PropKinds == {"int", "str", "wstr", "unknown", "past"}

PropBytes(kind) ==
    CASE kind = "int" -> <<PropertyTypeInt32, 0, 0, 0, 7, 0, 0, 0>>
      [] kind = "str" -> <<PropertyTypeStringA, 0, 0, 0, 3, 0, 0, 0, 72, 105, 0, 0>>
      [] kind = "wstr" -> <<PropertyTypeStringW, 0, 0, 0, 6, 0, 0, 0, 72, 0, 105, 0, 0, 0, 0, 0>>
      [] kind = "unknown" -> <<2, 0, 0, 0, 5, 0, 0, 0>>
      [] kind = "past" -> <<>>

\* a property set whose properties ids[k] have the values of kinds[k], laid
\* out one after the other behind the table; covered is the number of values
\* that the size field of the set covers
PropSetData(ids, kinds, covered) ==
    LET n == Len(kinds)
        values == Flatten([k \in 1..n |-> PropBytes(kinds[k])])
        total == 8 + (8 * n) + Len(values)
        Start(k) == 8 + (8 * n) + Len(Flatten([j \in 1..(k - 1) |-> PropBytes(kinds[j])]))
        OffsetOf(k) == IF kinds[k] = "past" THEN total + 4 ELSE Start(k)
    IN  PutLE32(U(Start(covered + 1))) \o PutLE32(U(n))
        \o Flatten([k \in 1..n |-> PutLE32(U(ids[k])) \o PutLE32(U(OffsetOf(k)))])
        \o values

PropSetDatas ==
    { PropSetData(<<PIDTitle, PIDSubject, PIDAuthor>>, <<a, b, c>>, covered) :
         a \in PropKinds, b \in PropKinds, c \in PropKinds, covered \in {1, 3} }
    \cup { PropSetData(<<PIDTitle, PIDTitle>>, <<"int", "str">>, 2),
           PutLE32(U(16)) \o PutLE32(U(2)) \o PutLE32(U(PIDTitle)) \o PutLE32(U(16)),
           PutLE32(U(8)) \o PutLE32(<<65535, 65535>>),
           <<8, 0, 0, 0>> }

ParserInputs ==
    { [fn |-> "parsePropertySetData", data |-> d] : d \in PropSetDatas }
    \cup
    { [fn |-> "Decrypt", data |-> d, key |-> k] : d \in Rc4Datas, k \in Rc4Keys }
    \cup
    { [fn |-> "ParsePCD", data |-> d, ccps |-> <<>>] : d \in PcdDatas }
    \cup { [fn |-> "ParsePlcPcd", data |-> d, ccps |-> c] : d \in PlcDatas, c \in CcpSets }
    \cup { [fn |-> f, data |-> d, ccps |-> <<>>] :
              f \in {"ParseFIB", "ParseFIB_fib_go"}, d \in FibDatas }

InitParse ==
    /\ input \in ParserInputs
    /\ output = NoCall
    /\ doc = NoDoc
    /\ results = <<>>
    /\ crashed = FALSE
    /\ file = NoFile
    /\ reader = NoFile
    /\ reads = <<>>
    /\ thr = NoThreads

\* pcd, err := structures.ParsePCD(data), and pcd.GetActualFC() when err == nil
DoParsePCD ==
    /\ input.fn = "ParsePCD"
    /\ output = NoCall
    /\ LET pcd == ParsePCD(input.data)
       IN  output' = [fn |-> "ParsePCD", val |-> pcd,
                      actualFC |-> IF pcd.err = "" THEN GetActualFC(pcd) ELSE U(0)]
    /\ UNCHANGED <<input, doc, results, crashed, file, reader, reads, thr>>

\* plcPcd, err := structures.ParsePlcPcd(data)
DoParsePlcPcd ==
    /\ input.fn = "ParsePlcPcd"
    /\ output = NoCall
    /\ output' = [fn |-> "ParsePlcPcd", val |-> ParsePlcPcd(input.data)]
    /\ UNCHANGED <<input, doc, results, crashed, file, reader, reads, thr>>

\* fib, err := fib.ParseFIB(data), with the ParseFIB of src/unnamed/part_008
DoParseFIB ==
    /\ input.fn = "ParseFIB"
    /\ output = NoCall
    /\ output' = [fn |-> "ParseFIB", val |-> ParseFIB(input.data)]
    /\ UNCHANGED <<input, doc, results, crashed, file, reader, reads, thr>>

\* fib, err := fib.ParseFIB(data), with the ParseFIB of src/fib/fib.go
DoParseFIB_fib_go ==
    /\ input.fn = "ParseFIB_fib_go"
    /\ output = NoCall
    /\ output' = [fn |-> "ParseFIB_fib_go", val |-> ParseFIB_fib_go(input.data)]
    /\ UNCHANGED <<input, doc, results, crashed, file, reader, reads, thr>>

\* c1, _ := crypto.NewRC4(key); out := c1.Decrypt(data), and then
\* c2, _ := crypto.NewRC4(key); back := c2.Decrypt(out).  buf is what the
\* caller's slice data holds after the calls (Decrypt writes to a slice of
\* its own, line 48).
DoDecrypt ==
    /\ input.fn = "Decrypt"
    /\ output = NoCall
    /\ \E first \in {Decrypt(NewRC4(input.key), input.data)} :
       \E second \in {Decrypt(NewRC4(input.key), first.out)} :
          output' = [fn |-> "Decrypt", out |-> first.out, back |-> second.out,
                     buf |-> input.data]
    /\ UNCHANGED <<input, doc, results, crashed, file, reader, reads, thr>>

\* properties := make(map[uint32]interface{});
\* err := me.parsePropertySetData(data, properties)
DoParsePropertySetData ==
    /\ input.fn = "parsePropertySetData"
    /\ output = NoCall
    /\ \E r \in {parsePropertySetData(input.data, NoProperties)} :
          output' = [fn |-> "parsePropertySetData", err |-> r.err,
                     properties |-> r.properties]
    /\ UNCHANGED <<input, doc, results, crashed, file, reader, reads, thr>>

NextParse ==
    \/ DoParsePropertySetData
    \/ DoDecrypt
    \/ DoParsePCD
    \/ DoParsePlcPcd
    \/ DoParseFIB
    \/ DoParseFIB_fib_go

SpecParse == InitParse /\ [][NextParse]_vars

\* the parts of the descriptor a call of ParsePCD was given
Returns(fn) == output # NoCall /\ output.fn = fn
FcWord == LE32(input.data, 2)
Bit30Set == (FcWord[1] \div 16384) % 2 = 1
Low30 == <<FcWord[1] % 16384, FcWord[2]>>

\* C11 (as claimed): a PCD is Unicode exactly when bit 30 of its packed FC
\* is clear; the byte offset is the low 30 bits, halved for a Unicode piece.
C11_UnicodeWhenBit30Clear ==
    (Returns("ParsePCD") /\ output.val.err = "") =>
        /\ output.val.IsUnicode = ~Bit30Set
        /\ output.actualFC = IF ~Bit30Set THEN Div2(Low30) ELSE Low30

\* C12: ParsePCD reports IsUnicode exactly when bit 0x40000000 of the FC
\* word is set, FC is the word's low 30 bits, FNoEncryption is flag bit 0
\* and FComplex flag bit 1; GetActualFC is FC/2 for a Unicode piece and FC
\* otherwise; input that is not 8 bytes long is an error.
C12_ParsePCD ==
    Returns("ParsePCD") =>
        IF Len(input.data) # 8 THEN output.val.err # ""
        ELSE /\ output.val.err = ""
             /\ output.val.IsUnicode = Bit30Set
             /\ output.val.FC = Low30
             /\ output.val.FNoEncryption = (LE16(input.data, 0) % 2 = 1)
             /\ output.val.FComplex = ((LE16(input.data, 0) \div 2) % 2 = 1)
             /\ output.actualFC = IF Bit30Set THEN Div2(Low30) ELSE Low30

\* the descriptor of the test was parsed: flags 0x0001, FC word 0x40000400
C12_Witness ==
    /\ Returns("ParsePCD")
    /\ input.data = <<1, 0, 0, 4, 0, 64, 0, 0>>
    /\ output.val.IsUnicode
    /\ output.actualFC = U(512)

RECURSIVE SumOf(_)
SumOf(ns) == IF ns = <<>> THEN 0 ELSE ns[1] + SumOf(Tail(ns))

\* C13 (as claimed): a piece table that parses has one CP more than it has
\* pieces, CPs that do not decrease, and a last CP equal to the sum of the
\* seven character counts of the FIB.
C13_ParsedPieceTable ==
    (Returns("ParsePlcPcd") /\ output.val.err = "") =>
        LET cps == output.val.CPs
        IN  /\ Len(cps) = Len(output.val.Pieces) + 1
            /\ \A i \in 1..(Len(cps) - 1) : ~Lt32(cps[i + 1], cps[i])
            /\ cps[Len(cps)] = U(SumOf(input.ccps))

(***************************************************************************)
(* The FIB as documented: the sub-records are length-prefixed, so the       *)
(* fibRgFcLcb blob starts after 2*csw and 4*cslw bytes                      *)
(***************************************************************************)
ParsesFib == output # NoCall /\ output.fn \in {"ParseFIB", "ParseFIB_fib_go"}

CswAt == fibBaseSize
CslwAt == CswAt + 2 + (2 * LE16(input.data, CswAt))
CbAt == CslwAt + 2 + (4 * LE16(input.data, CslwAt))
BlobAt == CbAt + 2
BlobLen == 8 * LE16(input.data, CbAt)

\* the data is a Word FIB that holds all of its length-prefixed sub-records
WholeFib ==
    /\ Len(input.data) >= fibBaseSize + 2
    /\ LE16(input.data, 0) = wIdentWord
    /\ Len(input.data) >= CslwAt + 2
    /\ Len(input.data) >= CbAt + 2
    /\ Len(input.data) >= BlobAt + BlobLen

SupportedNFib == LE16(input.data, 2) \in {193, 217, 257, 268, 274}

\* C15 (as claimed): for every supported nFib, ParseFIB sets FcClx and LcbClx
\* to the little-endian uint32 values at byte offsets 264 and 268 of the
\* fibRgFcLcb blob (stated for FIBs whose blob has these offsets).
C15_ClxPointerAtOffset264 ==
    (ParsesFib /\ WholeFib /\ SupportedNFib /\ BlobLen >= 272)
    => /\ output.val.err = ""
       /\ output.val.fib.FcClx = LE32(input.data, BlobAt + 264)
       /\ output.val.fib.LcbClx = LE32(input.data, BlobAt + 268)

\* C16 (as claimed): ParseFIB fails with an error whenever the fibRgFcLcb
\* blob is shorter than 272 bytes; it never succeeds with FcClx and LcbClx
\* left at zero in that case.
C16_ShortBlobIsError ==
    (ParsesFib /\ WholeFib /\ BlobLen < 272) => output.val.err # ""

\* C28 (as claimed): ParseFIB locates each section from the count before it:
\* Csw is the uint16 after the 32-byte FibBase and fibRgW the csw*2 bytes
\* after it, Cslw the uint16 after fibRgW and fibRgLw the cslw*4 bytes after
\* it, CbRgFcLcb the uint16 after fibRgLw, and the fibRgFcLcb blob the
\* cbRgFcLcb*8 bytes after that.
C28_SectionsFollowTheirCounts ==
    (ParsesFib /\ output.fn = "ParseFIB" /\ WholeFib)
    => /\ output.val.err = ""
       /\ output.val.fib.Csw = LE16(input.data, CswAt)
       /\ output.val.fib.Cslw = LE16(input.data, CslwAt)
       /\ output.val.fib.CbRgFcLcb = LE16(input.data, CbAt)
       /\ output.val.fib.RgFcLcbBlob = Slice(input.data, BlobAt, BlobAt + BlobLen)

\* C29: RC4 decryption is its own inverse: for a non-empty key, Decrypt on a
\* freshly keyed cipher applied to the output of Decrypt on another freshly
\* keyed cipher returns the input; each output has the length of its
\* input, and the input slice is left as it was.
C29_DecryptIsItsOwnInverse ==
    (output # NoCall /\ output.fn = "Decrypt")
    => /\ output.back = input.data
       /\ Len(output.out) = Len(input.data)
       /\ output.buf = input.data

\* 260 bytes were encrypted to other bytes and decrypted back, across the
\* wrap of the cipher's index i
C29_Witness ==
    /\ output # NoCall /\ output.fn = "Decrypt"
    /\ Len(input.data) = 260
    /\ Len(input.key) = 16
    /\ output.out # input.data
    /\ output.out[260] # input.data[260]
    /\ output.back = input.data

\* the property set given to parsePropertySetData has a whole table of
\* (id, offset) pairs with ids that differ
WholePropertySet ==
    /\ Len(input.data) >= 8
    /\ Fits(LE32(input.data, 4))
    /\ Num(LE32(input.data, 4)) <= (Len(input.data) - 8) \div 8
    /\ LET table == PropertyTable(input.data, Num(LE32(input.data, 4)))
       IN  \A j, k \in 1..Len(table) : table[j].id = table[k].id => j = k

\* the end of the set: its size field, or the end of the data when the
\* field says more than there is
EndOfSet ==
    IF Fits(LE32(input.data, 0)) THEN Min(Num(LE32(input.data, 0)), Len(input.data))
    ELSE Len(input.data)

\* the property of a pair lies in the set and its value decodes
DecodesInSet(pair) ==
    /\ Fits(pair.offset)
    /\ Num(pair.offset) < EndOfSet
    /\ readPropertyValue(Slice(input.data, Num(pair.offset), Len(input.data))).err = ""

\* C25: parsePropertySetData on a set with distinct ids returns no error and
\* exactly the properties that lie in the set and decode: a property with an
\* unknown type or with an offset past the end of the set is left out, and
\* every other property is in the map with its decoded value.
C25_BadPropertyDroppedAlone ==
    (output # NoCall /\ output.fn = "parsePropertySetData" /\ WholePropertySet)
    => LET table == PropertyTable(input.data, Num(LE32(input.data, 4)))
       IN  /\ output.err = ""
           /\ \A k \in 1..Len(table) :
                 IF DecodesInSet(table[k])
                 THEN /\ table[k].id \in DOMAIN output.properties
                      /\ output.properties[table[k].id]
                           = readPropertyValue(Slice(input.data, Num(table[k].offset),
                                                     Len(input.data))).value
                 ELSE table[k].id \notin DOMAIN output.properties

(***************************************************************************)
(* Opening documents.  The files hold a FIB ParseFIB reads (cslw = 19) in   *)
(* the first 512 bytes of WordDocument, the text from offset 512 on, and in *)
(* 1Table a 146-byte EncryptionHeader followed by the CLX (fcClx = 30,     *)
(* which extractEncryptedText looks up at 116 + 30).                       *)
(***************************************************************************)
FibWith(flags1, fcClx, lcbClx) ==
    FibBase(193, flags1) \o PutLE16(14) \o Repeat(0, 28) \o PutLE16(19) \o Repeat(0, 76)
        \o PutLE16(34) \o Repeat(0, 264) \o PutLE32(fcClx) \o PutLE32(lcbClx) \o Repeat(0, 98)

\* printable text bytes for the offsets 512..1029
PlainBody == [k \in 1..518 |-> 33 + ((7 * k) % 90)]

Secret == <<115, 101, 99, 114, 101, 116>>
Wrong == <<119, 114, 111, 110, 103>>
Passwords == { Secret, Wrong, <<>> }

DocSalt == [k \in 1..16 |-> 15 + k]
Verifier == [k \in 1..16 |-> (3 * k) - 2]

CALG_RC4 == U(26625)
CALG_AES_128 == U(26126)
AlgIDs == { CALG_RC4, CALG_AES_128 }

HeaderBytes(alg, salt, ev, vh) ==
    PutLE16(1) \o PutLE32(U(0)) \o PutLE32(U(0)) \o PutLE32(U(1)) \o PutLE32(alg)
        \o PutLE32(U(32772)) \o PutLE32(U(40)) \o Repeat(0, 8) \o Repeat(0, 64)
        \o salt \o ev \o vh

\* the key of the documents: MD5(MD5(UTF-16LE password) || salt)
DocKey == md5Sum(md5Sum(Utf16Password(Secret)) \o DocSalt)

\* the RC4 key of block k: MD5(key || k as a little-endian uint32)
BlockKey(key, k) == md5Sum(key \o PutLE32(U(k)))

\* the cipher c after n more keystream bytes (by halves, to keep the
\* evaluation shallow; c.i < 0 never holds and makes TLC evaluate c first)
RECURSIVE Advance(_, _)
Advance(c, n) ==
    IF n = 0 \/ c.i < 0 THEN c
    ELSE IF n = 1 THEN RC4Step(c, 0).c
    ELSE Advance(Advance(c, n \div 2), n - (n \div 2))

\* data, which lies at byte offset b of its stream, under the block cipher:
\* the keystream of block b \div 512 from position b % 512 on, re-keyed at
\* every multiple of 512
RECURSIVE BlockCrypt(_, _, _)
BlockCrypt(key, data, b) ==
    IF data = <<>> THEN <<>>
    ELSE LET n  == Min(512 - (b % 512), Len(data))
             c0 == NewRC4(BlockKey(key, b \div 512))
             c1 == Advance(c0, b % 512)
         IN  Decrypt(c1, Slice(data, 0, n)).out
                 \o BlockCrypt(key, Slice(data, n, Len(data)), b + n)

\* the WordDocument stream with every encrypted piece under the block cipher
RECURSIVE BlockEncryptPieces(_, _, _, _)
BlockEncryptPieces(plcPcd, ws, i, key) ==
    IF i > Count(plcPcd) THEN ws
    ELSE
    LET pcd == plcPcd.Pieces[i]
        charCount == Distance(plcPcd.CPs[i], plcPcd.CPs[i + 1])
        lo == Num(GetActualFC(pcd))
        hi == lo + (IF pcd.IsUnicode THEN 2 * Num(charCount) ELSE Num(charCount))
    IN  IF charCount = U(0) \/ pcd.FNoEncryption \/ hi > Len(ws)
        THEN BlockEncryptPieces(plcPcd, ws, i + 1, key)
        ELSE BlockEncryptPieces(plcPcd,
                 Slice(ws, 0, lo) \o BlockCrypt(key, Slice(ws, lo, hi), lo)
                     \o Slice(ws, hi, Len(ws)),
                 i + 1, key)

\* piece tables over the text: one 8-bit piece at 512; a 16-bit piece at 512
\* and an fNoEncryption piece at 516; a piece at 512 and one across the block
\* boundary at 1024; two pieces out of stream order
OpenPlcs ==
    { PlcBytes(<<U(0), U(2)>>, <<PcdBytes(0, U(512))>>),
      PlcBytes(<<U(0), U(2), U(4)>>, <<PcdBytes(0, Add32(Bit30, U(1024))), PcdBytes(1, U(516))>>),
      PlcBytes(<<U(0), U(2), U(6)>>, <<PcdBytes(0, U(512)), PcdBytes(0, U(1022))>>),
      PlcBytes(<<U(0), U(2), U(4)>>, <<PcdBytes(0, U(516)), PcdBytes(0, U(512))>>) }

StreamsOf(ws, t1) ==
    [n \in {"WordDocument", "0Table", "1Table"} |->
        IF n = "WordDocument" THEN Stream(ws) ELSE IF n = "1Table" THEN Stream(t1) ELSE NoStream]

\* an encrypted file as documented: the verifier under the key of block 0,
\* VerifierHash = MD5(verifier), table and text under the block cipher
BlockFile(alg, p) ==
    StreamsOf(BlockEncryptPieces(ParsePlcPcd(p), FibWith(768, U(30), U(1 + Len(p))) \o PlainBody,
                                 1, DocKey),
              HeaderBytes(alg, DocSalt,
                          Decrypt(NewRC4(BlockKey(DocKey, 0)), Verifier).out,
                          md5Sum(Verifier))
                  \o BlockCrypt(DocKey, <<2>> \o p, 146))

\* an encrypted file as this package reads it: the verifier under the key
\* itself, VerifierHash = GeneratePasswordHash(string(verifier)), and the CLX
\* and the pieces, in piece order, one RC4 stream under the key
StreamFile(flags1, alg, p) ==
    LET clx == Decrypt(NewRC4(DocKey), <<2>> \o p)
    IN  StreamsOf(EncryptPieces(ParsePlcPcd(p),
                                FibWith(flags1, U(30), U(1 + Len(p))) \o PlainBody, 1, clx.c),
                  HeaderBytes(alg, DocSalt, Decrypt(NewRC4(DocKey), Verifier).out,
                              GeneratePasswordHash(Verifier))
                      \o clx.out)

\* XOR-obfuscated files (flags1 = 0x8300), text and CLX verbatim: one with
\* the CLX at the head of the table stream, one whose table stream starts
\* with 146 bytes this package takes for an EncryptionHeader of the password
XorFile(p, withHeader) ==
    IF withHeader
    THEN StreamsOf(FibWith(33536, U(146), U(1 + Len(p))) \o PlainBody,
                   HeaderBytes(CALG_RC4, DocSalt, Decrypt(NewRC4(DocKey), Verifier).out,
                               GeneratePasswordHash(Verifier))
                       \o <<2>> \o p)
    ELSE StreamsOf(FibWith(33536, U(0), U(1 + Len(p))) \o PlainBody, <<2>> \o p)

\* files that are not encrypted, and files open rejects
OtherFiles ==
    { StreamsOf(FibWith(512, U(0), U(1 + Len(p))) \o PlainBody, <<2>> \o p) : p \in OpenPlcs }
    \cup { StreamsOf(FibWith(768, U(30), U(9)) \o PlainBody, Repeat(0, k)) : k \in {0, 31, 98, 130} }
    \cup { StreamsOf(<<1, 2, 3>>, <<>>),
           [StreamsOf(<<>>, <<>>) EXCEPT !["WordDocument"] = NoStream],
           [StreamsOf(FibWith(768, U(30), U(9)) \o PlainBody, <<>>) EXCEPT !["1Table"] = NoStream] }

OpenFiles ==
    { BlockFile(alg, p) : alg \in AlgIDs, p \in OpenPlcs }
    \cup { StreamFile(768, alg, p) : alg \in AlgIDs, p \in OpenPlcs }
    \cup { XorFile(p, h) : p \in OpenPlcs, h \in BOOLEAN }
    \cup OtherFiles

InitOpen ==
    /\ input \in { [fn |-> "openWithPassword", streams |-> f, password |-> pw] :
                      f \in OpenFiles, pw \in Passwords }
    /\ output = NoCall
    /\ doc = NoDoc
    /\ results = <<>>
    /\ crashed = FALSE
    /\ file = NoFile
    /\ reader = NoFile
    /\ reads = <<>>
    /\ thr = NoThreads

\* doc, err := msdoc.OpenWithPassword(filename, password), or msdoc.Open(filename)
\* when the password is empty
DoOpen ==
    /\ output = NoCall
    /\ \E r \in {openWithPassword(input.streams, input.password)} :
          /\ output' = [fn |-> "openWithPassword", err |-> r.err]
          /\ doc' = r.doc
          /\ file' = r.file
    /\ UNCHANGED <<input, results, crashed, reader, reads, thr>>

\* text, err := doc.Text() on the Document open returned
OpenedText ==
    /\ doc # NoDoc
    /\ CallText

NextOpen ==
    \/ DoOpen
    \/ OpenedText

SpecOpen == InitOpen /\ [][NextOpen]_vars

(***************************************************************************)
(* Properties of opening encrypted files                                   *)
(***************************************************************************)
Opens == output # NoCall /\ output.fn = "openWithPassword"

\* the FIB and the EncryptionHeader of the file that is opened
InFib == ParseFIB(input.streams["WordDocument"].data)
InTable == input.streams[GetTableStreamName(InFib.fib)]
InHeader == ParseEncryptionHeader(InTable.data)

EncryptedFile == input.streams["WordDocument"].ok /\ InFib.err = "" /\ IsEncrypted(InFib.fib)

\* is_xor_obfuscated as documented: is_encrypted and flags1 bit 0x8000
XorFileOpened == EncryptedFile /\ HasBit(InFib.fib.Flags1, 32768)

\* an encrypted file without XOR obfuscation whose EncryptionHeader parses
Rc4FileOpened ==
    EncryptedFile /\ ~HasBit(InFib.fib.Flags1, 32768) /\ InTable.ok /\ InHeader.err = ""

\* the documented key, MD5(MD5(UTF-16LE password) || salt), and verification:
\* MD5 of the EncryptedVerifier decrypted under the key of block 0
ClaimedKey(password, salt) == md5Sum(md5Sum(Utf16Password(password)) \o Slice(salt, 0, 16))

ClaimedVerifies(h, password) ==
    md5Sum(Decrypt(NewRC4(BlockKey(ClaimedKey(password, h.Salt), 0)),
                   h.EncryptedVerifier).out) = h.VerifierHash

\* C17 (as claimed): opening an RC4-encrypted document with a password
\* succeeds exactly when the MD5 of the EncryptedVerifier, decrypted with the
\* block-0 key derived from the password and the salt, equals VerifierHash;
\* otherwise open returns an error and no Document.
C17_OpensExactlyWhenVerified ==
    (Opens /\ Rc4FileOpened /\ IsRC4Encryption(InHeader.header))
    => /\ (output.err = "") <=> ClaimedVerifies(InHeader.header, input.password)
       /\ output.err # "" => doc = NoDoc

\* the Document open returned, before any Text() call, and the piece table
\* its first Text() call decodes
OpenedDoc == openWithPassword(input.streams, input.password).doc
OpenedClx == EncryptedClx(OpenedDoc)

\* the text of the pieces from piece i on when every encrypted piece is
\* decrypted by the block cipher at its own offset in the WordDocument stream
RECURSIVE ClaimedBlockText(_, _, _, _)
ClaimedBlockText(plcPcd, ws, i, key) ==
    IF i > Count(plcPcd) THEN <<>>
    ELSE
    LET pcd == plcPcd.Pieces[i]
        charCount == Distance(plcPcd.CPs[i], plcPcd.CPs[i + 1])
        lo == Num(GetActualFC(pcd))
        hi == lo + (IF pcd.IsUnicode THEN 2 * Num(charCount) ELSE Num(charCount))
        raw == Slice(ws, lo, hi)
        bytes == IF pcd.FNoEncryption THEN raw ELSE BlockCrypt(key, raw, lo)
    IN  (IF charCount = U(0) THEN <<>>
         ELSE IF pcd.IsUnicode THEN UnicodePieceText(bytes, charCount) ELSE bytes)
            \o ClaimedBlockText(plcPcd, ws, i + 1, key)

\* C18 (as claimed): the keystream applied to an encrypted piece depends only
\* on the piece's position in the WordDocument stream: it is the keystream of
\* block b / 512 from position b mod 512 on, re-keyed at every 512-byte
\* boundary, whatever was decrypted before; so every Text() that succeeds on
\* an opened RC4 document returns the pieces decrypted that way.
C18_KeystreamByPosition ==
    (Opens /\ Rc4FileOpened /\ output.err = "" /\ OpenedClx.pieces)
    => \A k \in 1..Len(results) :
          results[k].kind = "ok"
          => results[k].text =
                ClaimedBlockText(OpenedClx.plcPcd, OpenedClx.ws, 1,
                                 ClaimedKey(input.password, InHeader.header.Salt))

\* the text of the pieces from piece i on when the cipher c is applied to
\* the pieces whose fNoEncryption flag is clear, and to no other
RECURSIVE ClaimedStreamText(_, _, _, _)
ClaimedStreamText(plcPcd, ws, i, c) ==
    IF i > Count(plcPcd) THEN <<>>
    ELSE
    LET pcd == plcPcd.Pieces[i]
        charCount == Distance(plcPcd.CPs[i], plcPcd.CPs[i + 1])
        lo == Num(GetActualFC(pcd))
        hi == lo + (IF pcd.IsUnicode THEN 2 * Num(charCount) ELSE Num(charCount))
        raw == Slice(ws, lo, hi)
        d == IF pcd.FNoEncryption \/ charCount = U(0)
             THEN [c |-> c, out |-> raw] ELSE Decrypt(c, raw)
    IN  (IF charCount = U(0) THEN <<>>
         ELSE IF pcd.IsUnicode THEN UnicodePieceText(d.out, charCount) ELSE d.out)
            \o ClaimedStreamText(plcPcd, ws, i + 1, d.c)

\* C19 (as claimed): the RC4 path is used exactly when the FIB reports
\* encryption and XOR obfuscation is off.  An XOR-obfuscated document gets no
\* RC4 decryptor and its Text() is the text of the pieces taken verbatim; in
\* an RC4 document the decryptor is applied to exactly the pieces whose
\* fNoEncryption flag is clear.
C19_Rc4PathOnlyWithoutXor ==
    /\ (Opens /\ XorFileOpened /\ output.err = "")
       => /\ doc.decryptor.nil
          /\ \A k \in 1..Len(results) :
                results[k] = Returned(extractUnencryptedText(doc))
    /\ (Opens /\ Rc4FileOpened /\ output.err = "" /\ OpenedClx.pieces
          /\ Len(results) >= 1 /\ results[1].kind = "ok")
       => results[1].text =
             ClaimedStreamText(OpenedClx.plcPcd, OpenedClx.ws, 1, OpenedClx.out.dec)

\* C20 (as claimed): opening an encrypted document whose EncryptionHeader
\* AlgID is not RC4 fails and returns no Document, whatever the password.
C20_OtherCipherIsRejected ==
    (Opens /\ Rc4FileOpened /\ ~IsRC4Encryption(InHeader.header))
    => output.err # "" /\ doc = NoDoc

\* C30 (as claimed): every path on which Open or OpenWithPassword returns an
\* error has closed the file it opened: after a failed open no file handle
\* remains open.
C30_FailedOpenClosesFile ==
    (Opens /\ output.err # "") => file.closed

(***************************************************************************)
(* A Document in use: Text(), Metadata() and Close() calls one after the   *)
(* other on the Document an open returned.  The compound files hold the    *)
(* two summary streams next to the streams of the text.                    *)
(***************************************************************************)

\* Document.Close on the file the Document holds (d.file is set by open and
\* never cleared)
Close(f) == IF f # NoFile THEN FileClose(f) ELSE [err |-> "", file |-> f]

MaxDocCalls == 2    \* calls on one Document

\* encoded property values: an LPSTR with its terminating NUL, an LPWSTR of
\* ASCII characters with its terminating NUL and the given count, an I4, a
\* FILETIME
Lpstr(s) == <<PropertyTypeStringA, 0, 0, 0>> \o PutLE32(U(Len(s) + 1)) \o s \o <<0>>
Lpwstr(s, count) ==
    <<PropertyTypeStringW, 0, 0, 0>> \o PutLE32(U(count)) \o Utf16Pattern(s) \o <<0, 0>>
I4(n) == <<PropertyTypeInt32, 0, 0, 0>> \o PutLE32(U(n))
Filetime(x) == <<PropertyTypeFileTime, 0, 0, 0>> \o x

\* a property set with the properties ids[k] and their encoded values
PropSetOf(ids, values) ==
    LET n == Len(ids)
        Start(k) == 8 + (8 * n) + Len(Flatten([j \in 1..(k - 1) |-> values[j]]))
    IN  PutLE32(U(Start(n + 1))) \o PutLE32(U(n))
        \o Flatten([k \in 1..n |-> PutLE32(U(ids[k])) \o PutLE32(U(Start(k)))])
        \o Flatten(values)

\* a summary stream: the container header with the byte order mark bom, one
\* (FMTID, offset) pair, and the property set at offset 48
Container(bom, set) ==
    PutLE16(bom) \o <<0, 0>> \o <<2, 0, 10, 0>> \o Repeat(0, 16) \o PutLE32(U(1))
        \o Repeat(0, 16) \o PutLE32(U(48)) \o set

StrTheTitle == <<84, 104, 101, 32, 116, 105, 116, 108, 101, 32, 105, 115, 32, 119, 111, 114, 107, 105, 110, 103>>
StrAdvik == <<65, 100, 118, 105, 107, 32, 66>>
StrAcme == <<65, 99, 109, 101>>
StrBoss == <<66, 111, 115, 115>>

\* 2024-01-01 00:00:00 UTC as a FILETIME: 133485408000000000
NewYear2024 == <<0, 192, 137, 118, 69, 60, 218, 1>>

SummarySet ==
    PropSetOf(<<PIDTitle, PIDAuthor, PIDPageCount, PIDCreateTime>>,
              <<Lpwstr(StrTheTitle, Len(StrTheTitle) + 1), Lpstr(StrAdvik), I4(3),
                Filetime(NewYear2024)>>)

DocumentSummarySet ==
    PropSetOf(<<PIDCompany, PIDManager, PIDLineCount>>, <<Lpstr(StrAcme), Lpstr(StrBoss), I4(7)>>)

\* the SummaryInformation streams: none; a well-formed one; one with a bad
\* byte order mark; a container behind four other bytes; a stream without a
\* container that holds "PK\x03\x04" and a <title> element
SummaryStreams ==
    { NoStream,
      Stream(Container(65534, SummarySet)),
      Stream(Container(0, SummarySet)),
      Stream(<<1, 2, 3, 4>> \o Container(65534, SummarySet)),
      Stream(StrPK \o <<60, 116, 105, 116, 108, 101, 62, 32, 90, 105, 112, 32, 60, 47, 116, 105, 116, 108, 101, 62>> \o Repeat(32, 40)) }

\* the DocumentSummaryInformation streams: none; a well-formed one; one with
\* a bad byte order mark; a container behind four other bytes; one that is
\* too short for a container
DocumentSummaryStreams ==
    { NoStream,
      Stream(Container(65534, DocumentSummarySet)),
      Stream(Container(0, DocumentSummarySet)),
      Stream(<<1, 2, 3, 4>> \o Container(65534, DocumentSummarySet)),
      Stream(<<254, 255, 0, 0>>) }

\* the piece table of the documents: two 8-bit characters at offset 4
DocPlc == PlcBytes(<<U(0), U(2)>>, <<PcdBytes(0, Add32(Bit30, U(8)))>>)
DocKey5 == <<1, 2, 3, 4, 5>>

\* an encrypted Document whose CLX was encrypted with the key stream that
\* follows the first Len(clx) bytes
LateDoc(key, p, ws) ==
    LET c0 == Advance(NewRC4(key), 1 + Len(p))
        clx == Decrypt(c0, <<2>> \o p)
    IN  [fib |-> [Flags1 |-> 768, FcClx |-> U(0), LcbClx |-> U(1 + Len(p))],
         decryptor |-> NewRC4(key),
         streams |-> [n \in {"WordDocument", "0Table", "1Table"} |->
                        IF n = "WordDocument"
                        THEN Stream(EncryptPieces(ParsePlcPcd(p), ws, 1, clx.c))
                        ELSE IF n = "1Table"
                        THEN Stream(Repeat(0, EncHeaderSize) \o clx.out)
                        ELSE NoStream]]

\* the Documents before the summary streams are added: a plain one; a plain
\* one whose piece lies outside the WordDocument stream; an encrypted one;
\* an encrypted one whose CLX decrypts at the second attempt; a plain one
\* with strings of the fallbacks behind the CLX, in WordDocument and in a
\* Data stream; one with the table in 0Table and strings only the last
\* fallback finds
BaseDocs ==
    { PlainDoc(512, U(0), U(1 + Len(DocPlc)), NoStream, Stream(<<2>> \o DocPlc),
               <<72, 0, 105, 0, 233, 65, 61, 216>>),
      PlainDoc(512, U(0), U(1 + Len(DocPlc)), NoStream, Stream(<<2>> \o DocPlc), <<72, 105>>),
      EncDoc(DocKey5, DocPlc, <<72, 0, 105, 0, 233, 65, 61, 216>>),
      LateDoc(DocKey5, DocPlc, <<72, 0, 105, 0, 233, 65, 61, 216>>),
      PlainDoc(512, U(0), U(1 + Len(DocPlc)), NoStream,
               Stream(<<2>> \o DocPlc \o StrComments \o Utf16Pattern(StrKeywords)),
               <<72, 0, 105, 0, 233, 65, 61, 216>> \o StrGithub),
      PlainDoc(0, U(0), U(1 + Len(DocPlc)), Stream(<<2>> \o DocPlc), NoStream,
               <<72, 0, 105, 0, 233, 65, 61, 216>> \o <<119, 104, 111, 32>> \o <<226, 132, 170>> \o <<110, 111, 119, 115, 32, 82, 69, 65, 68, 89, 32>>
                   \o <<6, 71, 86, 214, 32>>) }

\* the Document with a stream more
AddStream(d, name, stream) ==
    [d EXCEPT !.streams = [n \in (DOMAIN d.streams) \cup {name} |->
                              IF n = name THEN stream ELSE d.streams[n]]]

MetaDocs ==
    { AddStream(AddStream(d, SummaryInformation, s), DocumentSummaryInformation, ds) :
         d \in BaseDocs, s \in SummaryStreams, ds \in DocumentSummaryStreams }
    \cup { AddStream(d, "Data", Stream(<<0, 0>> \o Utf16Pattern(StrCompany))) : d \in BaseDocs }

InitDoc ==
    /\ doc \in MetaDocs
    /\ file = OpenedFile
    /\ results = <<>>
    /\ crashed = FALSE
    /\ reader = NoFile
    /\ reads = <<>>
    /\ thr = NoThreads
    /\ input = NoCall
    /\ output = NoCall

\* text, err := doc.Text(), on a Document that is not closed
DocText ==
    /\ ~crashed
    /\ ~file.closed
    /\ Len(results) < MaxDocCalls
    /\ \E o \in {Text(doc)} :
          /\ results' = Append(results, [fn |-> "Text", kind |-> o.kind, text |-> o.text,
                                         err |-> o.err])
          /\ doc' = [doc EXCEPT !.decryptor = o.dec]
          /\ crashed' = (o.kind = "panic")
    /\ UNCHANGED <<file, reader, reads, thr, input, output>>

\* uint32(len(text)) of a Go string
RECURSIVE StringLen32(_)
StringLen32(text) ==
    IF text = <<>> THEN U(0)
    ELSE Add32(U(IF Head(text) < 0 THEN -Head(text) ELSE 1), StringLen32(Tail(text)))

\* Document.GetFormattedText: the runs (nil with an error), and the outcome
\* of the call of d.Text() it makes
GetFormattedText(d) ==
    IF IsEncrypted(d.fib) /\ d.decryptor.nil
    THEN [runs |-> <<>>,
          o |-> ErrOut("document is encrypted but decryption is not available", d.decryptor)]
    ELSE LET Run(o) ==
                 [runs |-> IF o.kind = "ok"
                           THEN <<[Text |-> o.text, StartPos |-> U(0),
                                   EndPos |-> StringLen32(o.text)]>>
                           ELSE <<>>,
                  o |-> o]
         IN  Apply(Run, Text(d))

\* runs, err := doc.GetFormattedText(), on a Document that is not closed
DocGetFormattedText ==
    /\ ~crashed
    /\ ~file.closed
    /\ Len(results) < MaxDocCalls
    /\ \E r \in {GetFormattedText(doc)} :
          /\ results' = Append(results, [fn |-> "GetFormattedText", kind |-> r.o.kind,
                                         runs |-> r.runs, err |-> r.o.err])
          /\ doc' = [doc EXCEPT !.decryptor = r.o.dec]
          /\ crashed' = (r.o.kind = "panic")
    /\ UNCHANGED <<file, reader, reads, thr, input, output>>

\* metadata := doc.Metadata(), on a Document that is not closed
DocMetadata ==
    /\ ~crashed
    /\ ~file.closed
    /\ Len(results) < MaxDocCalls
    /\ \E m \in {Metadata(doc)} :
          results' = Append(results, [fn |-> "Metadata", val |-> m])
    /\ UNCHANGED <<doc, crashed, file, reader, reads, thr, input, output>>

\* err := doc.Close()
DocClose ==
    /\ ~crashed
    /\ Len(results) < MaxDocCalls
    /\ \E r \in {Close(file)} :
          /\ results' = Append(results, [fn |-> "Close", err |-> r.err])
          /\ file' = r.file
    /\ UNCHANGED <<doc, crashed, reader, reads, thr, input, output>>

NextDoc ==
    \/ DocText
    \/ DocGetFormattedText
    \/ DocMetadata
    \/ DocClose

SpecDoc == InitDoc /\ [][NextDoc]_vars

(***************************************************************************)
(* Properties of a Document in use                                         *)
(***************************************************************************)

\* the calls made so far that were Metadata() calls
MetadataCalls == { k \in 1..Len(results) : results[k].fn = "Metadata" }

\* the two summary streams of the Document
SummaryOf(d) == MetaReadStream(d.streams, SummaryInformation)
DocumentSummaryOf(d) == MetaReadStream(d.streams, DocumentSummaryInformation)

\* C21: a Text() call that fails leaves the Document usable: every
\* Metadata() call after it returns what Metadata() returns on the Document
\* as open left it, every Text() call after it returns what the failed call
\* returned, and a Metadata() call leaves the Document, its cipher
\* included, as it was, so that a Text() call after it is not affected.
C21_FailedTextLeavesDocumentUsable ==
    /\ [](\A i \in 1..Len(results) : \A j \in (i + 1)..Len(results) :
             (results[i].fn = "Text" /\ results[i].kind = "err")
             => /\ results[j].fn = "Metadata" => results[j].val = ExtractMetadata(doc.streams)
                /\ results[j].fn = "Text" => results[j] = results[i])
    /\ [][(Len(results') = Len(results) + 1 /\ results'[Len(results')].fn = "Metadata")
             => doc' = doc]_vars

\* C22: every Close() call after the first returns no error, and changes
\* neither the file nor the Document.
C22_CloseTwice ==
    /\ [](\A i \in 1..Len(results) : \A j \in (i + 1)..Len(results) :
             (results[i].fn = "Close" /\ results[j].fn = "Close") => results[j].err = "")
    /\ [][file.closed => (file' = file /\ doc' = doc /\ crashed' = crashed)]_vars

\* a summary stream as the reader is documented to take it: a container
\* with the byte order mark 0xFFFE in bytes 0..1 whose property sets parse
WellFormed(stream) ==
    /\ stream.ok
    /\ Len(stream.data) >= 48
    /\ LE16(stream.data, 0) = 65534
    /\ parsePropertySetFromOffset(stream.data, 0).err = ""

BadByteOrderMark(stream) ==
    stream.ok /\ Len(stream.data) >= 2 /\ LE16(stream.data, 0) # 65534

\* the properties a summary stream holds, and the metadata with the fields
\* the cases take from them
PropertiesOf(stream) ==
    IF WellFormed(stream) THEN parsePropertySetFromOffset(stream.data, 0).properties
    ELSE NoProperties

FieldsOf(stream, cases, metadata) == AssignProperties(metadata, PropertiesOf(stream), cases, 1)

\* the fields present in the property-set streams of the Document
PresentFields(d) ==
    FieldsOf(DocumentSummaryOf(d), DocumentSummaryCases,
             FieldsOf(SummaryOf(d), SummaryCases, NewDocumentMetadata))

\* C23: Metadata() returns a value in which every field that the two
\* property-set streams of the Document do not hold has its zero value.
C23_MissingFieldsAreDefaults ==
    \A k \in MetadataCalls : \A f \in DOMAIN NewDocumentMetadata :
       PresentFields(doc)[f] = NewDocumentMetadata[f]
       => results[k].val[f] = NewDocumentMetadata[f]

\* C24: when one summary stream does not have the byte order mark 0xFFFE in
\* bytes 0..1 and the other one is well formed, Metadata() returns exactly
\* the fields of the other one.
C24_BadByteOrderMarkSkipsStream ==
    \A k \in MetadataCalls :
       /\ (BadByteOrderMark(SummaryOf(doc)) /\ WellFormed(DocumentSummaryOf(doc)))
          => results[k].val
               = FieldsOf(DocumentSummaryOf(doc), DocumentSummaryCases, NewDocumentMetadata)
       /\ (BadByteOrderMark(DocumentSummaryOf(doc)) /\ WellFormed(SummaryOf(doc)))
          => results[k].val = FieldsOf(SummaryOf(doc), SummaryCases, NewDocumentMetadata)

\* an LPWSTR as documented: a count of characters that includes the
\* terminating NUL, then 2 * count bytes of UTF-16LE; the string is the
\* characters before the NUL
ClaimedLpwstr(value) ==
    Utf8(Utf16Decode([k \in 1..(Num(LE32(value, 4)) - 1) |-> LE16(value, 8 + (2 * (k - 1)))]))

\* C26: the title stored as the LPWSTR "The title is working" (a count of 21
\* and 42 bytes) is returned by Metadata() as that string, next to the
\* author stored as the LPSTR "Advik B".
C26_WideTitleDecodedWhole ==
    \A k \in MetadataCalls :
       SummaryOf(doc) = Stream(Container(65534, SummarySet))
       => /\ results[k].val.Title
               = ClaimedLpwstr(Lpwstr(StrTheTitle, Len(StrTheTitle) + 1))
          /\ results[k].val.Title = StrTheTitle
          /\ results[k].val.Author = StrAdvik

====
